---- MODULE Spec2Model ----
(***************************************************************************)
(* nputop: the device abstraction with its oneshot cache                  *)
(* (nputop/api/device.py, nputop/api/device_gpu.py), the pyACL session of *)
(* nputop/api/libascend.py, and the visible-device parser.                *)
(***************************************************************************)
EXTENDS Integers, Sequences, FiniteSets, TLC

(***************************************************************************)
(* Bounds of the model.                                                    *)
(***************************************************************************)
MaxEpoch == 2
MaxDepth == 2
MaxLife == 2
MaxTokens == 3
LruSize == 2
MaxBytes == 3
MaxCounter == 2
MaxStamp == 2
MaxArgs == 2
MaxLines == 2
MaxRecords == 3
MaxWatts == 9
MaxSnaps == 3
MaxWidth == 2
NDevices == 2
CountCap == 2

(* The thread that opens scopes and takes snapshots, and a consumer. *)
Poller == "t1"
Consumers == {"t2"}
Threads == {Poller} \cup Consumers
NoThread == "nobody"

(* libascend.NA, the "not applicable" sentinel *)
NA == "N/A"
None == "none"
BackendVals == {"v1", "v2"}

(***************************************************************************)
(* Part I.  Device (nputop/api/device.py), its accessors, oneshot() and    *)
(* as_snapshot().  Device.oneshot() and Device.as_snapshot() of            *)
(* nputop/api/device_gpu.py have the same text, with more accessors        *)
(* activated.                                                              *)
(***************************************************************************)

(* The accessors wrapped by @memoize_when_activated. *)
Memoized == {"memory_info", "utilization_rates"}

(* The accessors that go to the backend through nvmlQuery. *)
Prims == {"memory_info", "utilization_rates", "temperature", "power_usage", "power_limit"}

(* The entries of SNAPSHOT_KEYS that reach the backend, in the order of    *)
(* the list; memory_free, memory_total and the *_human keys have the shape *)
(* of memory_used, memory_utilization that of npu_utilization, and the     *)
(* other keys never reach the backend.                                     *)
SnapshotKeys ==
    << "memory_info", "memory_used", "memory_percent", "utilization_rates",
       "npu_utilization", "temperature", "power_usage", "power_limit",
       "power_status" >>

Keys == { SnapshotKeys[i] : i \in 1 .. Len(SnapshotKeys) }

(* The backend accessors a key calls, in order. *)
Plan(k) ==
    CASE k \in {"memory_info", "memory_used", "memory_percent"} -> << "memory_info" >>
      [] k \in {"utilization_rates", "npu_utilization"} -> << "utilization_rates" >>
      [] k = "temperature" -> << "temperature" >>
      [] k = "power_usage" -> << "power_usage" >>
      [] k = "power_limit" -> << "power_limit" >>
      [] k = "power_status" -> << "power_usage", "power_limit" >>

(* memory_used() and memory_percent() read .used / .total off whatever     *)
(* memory_info() returned; nvmlQuery returns the string NA on a failure,   *)
(* and the attribute read raises AttributeError.                           *)
KeyRaises(k, val) ==
    /\ k \in {"memory_used", "memory_percent"}
    /\ val = NA

VARIABLES
    rlock,      \* Device._lock, an RLock: [owner, count]
    hasCache,   \* hasattr(device, "_cache")
    cache,      \* device._cache: accessor -> [v, ep] (v = None: no entry)
    epoch,      \* history: number of cache activations so far
    scopeQ,     \* history: backend queries per accessor issued in the current activation
    lastExit,   \* history: the last "with" level left since the last activation
    th          \* the threads

devVars == << rlock, hasCache, cache, epoch, scopeQ, lastExit, th >>

VARIABLES
    inited,      \* __inited
    setDevOnce,  \* __set_dev_once
    setAt,       \* history: nInit when acl.rt.set_device was called (0: never)
    initLock,    \* __init_lock: its owner, or NoThread
    nInit,       \* history: the acl.init() calls that returned
    nFinal,      \* history: the acl.finalize() calls
    lt           \* the threads in libascend

ascVars == << inited, setDevOnce, setAt, initLock, nInit, nFinal, lt >>

VARIABLES
    pIn,         \* the visible-devices string, as its sequence of comma-separated tokens
    pDone,       \* the string was parsed
    pOut,        \* device.parse_cuda_visible_devices(pIn)
    pOutGpu      \* device_gpu._parse_cuda_visible_devices(pIn, "index")

parVars == << pIn, pDone, pOut, pOutGpu >>

VARIABLES
    envAscend,   \* os.environ: ASCEND_RT_VISIBLE_DEVICES
    envCuda,     \* os.environ: CUDA_VISIBLE_DEVICES
    lru,         \* the lru_cache of _parse_cuda_visible_devices, most recent first
    rFirst,      \* history: per argument, what its first call since the
                 \* environment changed returned
    rLast        \* history: the last call, its results, whether it was a
                 \* repeated call and whether the cache hit

resVars == << envAscend, envCuda, lru, rFirst, rLast >>

VARIABLES
    mRaw,        \* what acl.rt.get_mem_info answers: [ok, free, total]
    mRes         \* the results of the memory accessors called so far

memVars == << mRaw, mRes >>

VARIABLES
    lOld,        \* the stored NVLink counter sample: [c, ts]
    lNew,        \* the new NVLink counter sample: [c, ts]
    lOut         \* the throughput nvlink_throughput() computed from them

linkVars == << lOld, lNew, lOut >>

VARIABLES
    backendUp,   \* the backend answers its queries (else they raise)
    devName,     \* device.Device._name: "None", "N/A" or the name
    gpuName,     \* device_gpu.Device._name: "N/A" or the name
    totalHuman,  \* device.Device._memory_total_human: "N/A" or the string
    lazyLast,    \* history: the last call [acc, up, res, queried]
    found        \* history: the last discovery [called, up, count, devices, raised]

lazyVars == << backendUp, devName, gpuName, totalHuman, lazyLast, found >>

VARIABLES
    stubs,       \* the names set on Device by the loop below the class
    stubAt,      \* position of that loop in SNAPSHOT_KEYS
    stubLast     \* history: the last getattr(self, k)(args) [key, nargs, res]

stubVars == << stubs, stubAt, stubLast >>

VARIABLES
    cudaVisible, \* device_gpu: the parsed list of devices visible to CUDA
    objA, objB,  \* two constructed Device objects (or NoObject)
    eqLast       \* history: the last comparison [called, eq, hashA, hashB]

eqVars == << cudaVisible, objA, objB, eqLast >>

VARIABLES
    ttlLeft,     \* gui Device ttl_cache: seconds each entry still lives (0: none)
    smiAge,      \* seconds since the last npu-smi launch, capped at Ttl
    smiGap,      \* history: smiAge when the last npu-smi was launched
    smiCall      \* the read in progress [pc, field, dev, cmd, fate, out]

smiVars == << ttlLeft, smiAge, smiGap, smiCall >>

VARIABLES
    procText,    \* the npu-smi output the last parse of device K read
    procPrev,    \* history: the process list of the cycle before
    procNow      \* the process list of the last parse

procVars == << procText, procPrev, procNow >>

VARIABLES
    smiTable,    \* the device records of the table last parsed, in table order
    cacheRec,    \* libascend._CACHE: logical index -> record
    cacheIdx,    \* libascend._IDX: the logical indices, in order
    cacheWas     \* history: the logical indices before the last refresh

tabVars == << smiTable, cacheRec, cacheIdx, cacheWas >>

VARIABLES
    powText,     \* the Power(W) reading of the last npu-smi output
    powOut       \* what ascendDeviceGetPowerUsage returned for it

powVars == << powText, powOut >>

VARIABLES
    snapCur,     \* gui Device._snapshot: a snapshot object, or 0 for None
    snapHas,     \* the attributes set on each snapshot object so far
    gt           \* the threads in gui Device.as_snapshot / Device.snapshot

guiVars == << snapCur, snapHas, gt >>

VARIABLES
    hWidth,      \* HistoryGraph._width
    history,     \* HistoryGraph.history, oldest value first
    reversed_history,  \* HistoryGraph.reversed_history, newest value first
    maintainer,  \* HistoryGraph._max_value_maintainer
    hLast        \* history: the value most recently added

histVars == << hWidth, history, reversed_history, maintainer, hLast >>

(* What the actions of one part leave alone. *)
DevFrame == UNCHANGED << ascVars, parVars, resVars, memVars, linkVars, lazyVars, stubVars, eqVars, smiVars, procVars, tabVars, powVars, guiVars, histVars >>
AscFrame == UNCHANGED << devVars, parVars, resVars, memVars, linkVars, lazyVars, stubVars, eqVars, smiVars, procVars, tabVars, powVars, guiVars, histVars >>
ParFrame == UNCHANGED << devVars, ascVars, resVars, memVars, linkVars, lazyVars, stubVars, eqVars, smiVars, procVars, tabVars, powVars, guiVars, histVars >>
ResFrame == UNCHANGED << devVars, ascVars, parVars, memVars, linkVars, lazyVars, stubVars, eqVars, smiVars, procVars, tabVars, powVars, guiVars, histVars >>
MemFrame == UNCHANGED << devVars, ascVars, parVars, resVars, linkVars, lazyVars, stubVars, eqVars, smiVars, procVars, tabVars, powVars, guiVars, histVars >>
LinkFrame == UNCHANGED << ascVars, parVars, resVars, memVars, devVars, lazyVars, stubVars, eqVars, smiVars, procVars, tabVars, powVars, guiVars, histVars >>
LazyFrame == UNCHANGED << ascVars, parVars, resVars, memVars, linkVars, devVars, stubVars, eqVars, smiVars, procVars, tabVars, powVars, guiVars, histVars >>
StubFrame == UNCHANGED << ascVars, parVars, resVars, memVars, linkVars, lazyVars, devVars, eqVars, smiVars, procVars, tabVars, powVars, guiVars, histVars >>
EqFrame == UNCHANGED << ascVars, parVars, resVars, memVars, linkVars, lazyVars, stubVars, devVars, smiVars, procVars, tabVars, powVars, guiVars, histVars >>
SmiFrame == UNCHANGED << ascVars, parVars, resVars, memVars, linkVars, lazyVars, stubVars, eqVars, devVars, procVars, tabVars, powVars, guiVars, histVars >>
ProcFrame == UNCHANGED << ascVars, parVars, resVars, memVars, linkVars, lazyVars, stubVars, eqVars, smiVars, devVars, tabVars, powVars, guiVars, histVars >>
TabFrame == UNCHANGED << ascVars, parVars, resVars, memVars, linkVars, lazyVars, stubVars, eqVars, smiVars, procVars, devVars, powVars, guiVars, histVars >>
PowFrame == UNCHANGED << ascVars, parVars, resVars, memVars, linkVars, lazyVars, stubVars, eqVars, smiVars, procVars, tabVars, devVars, guiVars, histVars >>
GuiFrame == UNCHANGED << ascVars, parVars, resVars, memVars, linkVars, lazyVars, stubVars, eqVars, smiVars, procVars, tabVars, powVars, devVars, histVars >>
HistFrame == UNCHANGED << ascVars, parVars, resVars, memVars, linkVars, lazyVars, stubVars, eqVars, smiVars, procVars, tabVars, powVars, guiVars, devVars >>


NoVal == [v |-> None, ep |-> 0]
EmptyCache == [a \in Memoized |-> NoVal]
ZeroScopeQ == [a \in Memoized |-> 0]
ZeroCount == [a \in Prims |-> 0]
NoFirst == [a \in Memoized |-> None]

Bump(n) == IF n < CountCap THEN n + 1 ELSE CountCap

IdleThread ==
    [ pc |-> "idle",
      scopes |-> << >>,    \* the open "with oneshot()" levels; TRUE: the level activated the cache
      ki |-> 0,            \* position in SnapshotKeys, 0 outside as_snapshot()
      key |-> None,        \* the accessor the caller invoked
      prims |-> << >>,     \* the backend accessors it still has to call
      memo |-> FALSE,      \* the wrapper took the KeyError path and will store the result
      got |-> NoVal,       \* the value the backend accessor returns
      first |-> NoFirst,   \* history: the first value each accessor returned in the thread's scope
      snapQ |-> ZeroCount ] \* history: backend queries during the thread's as_snapshot()

DevInit ==
    /\ rlock = [owner |-> NoThread, count |-> 0]
    /\ hasCache = FALSE
    /\ cache = EmptyCache
    /\ epoch = 0
    /\ scopeQ = ZeroScopeQ
    /\ lastExit = None
    /\ th = [t \in Threads |-> IdleThread]

InScope(t) == th[t].scopes # << >>

(* threading.RLock: acquire() by the owner or when free, release() *)
CanAcquire(t) == rlock.owner \in {NoThread, t}

Acquire(t) == [owner |-> t, count |-> rlock.count + 1]

Release ==
    IF rlock.count = 1
    THEN [owner |-> NoThread, count |-> 0]
    ELSE [rlock EXCEPT !.count = @ - 1]

(* memoize_when_activated: cache_activate(self), on the pair               *)
(* c = [has, map] standing for the instance attribute _cache               *)
CacheActivate(c) == IF c.has THEN c ELSE [has |-> TRUE, map |-> EmptyCache]

(* memoize_when_activated: cache_deactivate(self) deletes _cache *)
CacheDeactivate(c) == [has |-> FALSE, map |-> EmptyCache]

(* memoize_when_activated: the outcome of "ret = self._cache[method]" for  *)
(* accessor a: "off" (the accessor is not wrapped, or AttributeError: no   *)
(* _cache), "miss" (KeyError) or "hit"                                     *)
WrapperLookup(a) ==
    IF a \notin Memoized \/ ~hasCache THEN "off"
    ELSE IF cache[a].v = None THEN "miss"
    ELSE "hit"

(* A mutant of OneshotEnter: the else branch forgets cache_activate. *)
OneshotEnterNoActivate(t) ==
    /\ CanAcquire(t)
    /\ Len(th[t].scopes) < MaxDepth
    /\ rlock' = Acquire(t)
    /\ IF hasCache
       THEN UNCHANGED << hasCache, cache, epoch, scopeQ, lastExit >>
       ELSE /\ epoch < MaxEpoch
            /\ epoch' = epoch + 1
            /\ scopeQ' = ZeroScopeQ
            /\ lastExit' = None
            /\ UNCHANGED << hasCache, cache >>

(* Device.oneshot(), up to its yield: "with self._lock", then either the   *)
(* no-op branch (hasattr(self, "_cache")) or the cache_activate calls.     *)
OneshotEnter(t) ==
    /\ CanAcquire(t)
    /\ Len(th[t].scopes) < MaxDepth
    /\ rlock' = Acquire(t)
    /\ IF hasCache
       THEN UNCHANGED << hasCache, cache, epoch, scopeQ, lastExit >>
       ELSE LET c == CacheActivate(CacheActivate([has |-> hasCache, map |-> cache]))
            IN  /\ epoch < MaxEpoch
                /\ hasCache' = c.has
                /\ cache' = c.map
                /\ epoch' = epoch + 1
                /\ scopeQ' = ZeroScopeQ
                /\ lastExit' = None

ExitKind(raised) == IF raised THEN "raised" ELSE "normal"

(* A mutant of OneshotLeave: scopes are stacked, every level deactivates. *)
OneshotLeaveStacked(t, own, raised) ==
    LET c == CacheDeactivate(CacheDeactivate([has |-> hasCache, map |-> cache]))
    IN  /\ hasCache' = c.has
        /\ cache' = c.map
        /\ scopeQ' = IF c.has THEN scopeQ ELSE ZeroScopeQ
        /\ rlock' = Release
        /\ lastExit' = IF rlock.count = 1 THEN ExitKind(raised) ELSE "inner"

(* A mutant of OneshotLeave: no "finally", an exception skips the          *)
(* cache_deactivate calls.                                                 *)
OneshotLeaveNoFinally(t, own, raised) ==
    LET c0 == [has |-> hasCache, map |-> cache]
        c == IF own /\ ~raised THEN CacheDeactivate(CacheDeactivate(c0)) ELSE c0
    IN  /\ hasCache' = c.has
        /\ cache' = c.map
        /\ scopeQ' = IF c.has THEN scopeQ ELSE ZeroScopeQ
        /\ rlock' = Release
        /\ lastExit' = IF rlock.count = 1 THEN ExitKind(raised) ELSE "inner"

(* Device.oneshot(), after its yield: the level that activated the cache   *)
(* (own) runs the cache_deactivate calls in its "finally", whether the     *)
(* body raised or not; the no-op branch does nothing; the lock is released.*)
OneshotLeave(t, own, raised) ==
    LET c0 == [has |-> hasCache, map |-> cache]
        c == IF own THEN CacheDeactivate(CacheDeactivate(c0)) ELSE c0
    IN  /\ hasCache' = c.has
        /\ cache' = c.map
        /\ scopeQ' = IF c.has THEN scopeQ ELSE ZeroScopeQ
        /\ rlock' = Release
        /\ lastExit' = IF rlock.count = 1 THEN ExitKind(raised) ELSE "inner"

Front(s) == SubSeq(s, 1, Len(s) - 1)
Top(s) == s[Len(s)]

(* The thread record once a backend accessor has its value val. *)
Returning(r, val) ==
    [r EXCEPT !.pc = "ret", !.got = val, !.memo = FALSE]

(* The thread record after one "with" level of the thread was left. *)
Left(r) ==
    [r EXCEPT !.scopes = Front(@), !.ki = 0, !.pc = "idle", !.snapQ = ZeroCount,
              !.first = IF Len(r.scopes) = 1 THEN NoFirst ELSE @]

(* A caller invokes the accessor k of the device. *)
CallAccessor(t, k) ==
    /\ th[t].pc = "idle"
    /\ th' = [th EXCEPT ![t].pc = "prim", ![t].key = k, ![t].prims = Plan(k)]
    /\ UNCHANGED << rlock, hasCache, cache, epoch, scopeQ, lastExit >>
    /\ DevFrame

(* The accessor is entered: the wrapper reads self._cache[method]. *)
Lookup(t) ==
    /\ th[t].pc = "prim"
    /\ LET a == Head(th[t].prims)
           r == th[t]
       IN  CASE WrapperLookup(a) = "hit" ->
                  th' = [th EXCEPT ![t] = Returning(r, cache[a])]
             [] WrapperLookup(a) = "miss" ->
                  th' = [th EXCEPT ![t] = [r EXCEPT !.pc = "query", !.memo = TRUE]]
             [] WrapperLookup(a) = "off" ->
                  th' = [th EXCEPT ![t] = [r EXCEPT !.pc = "query", !.memo = FALSE]]
    /\ UNCHANGED << rlock, hasCache, cache, epoch, scopeQ, lastExit >>
    /\ DevFrame

(* The accessor body: libnvml.nvmlQuery(...) answers a value or NA. *)
BackendQuery(t) ==
    /\ th[t].pc = "query"
    /\ \E res \in BackendVals \cup {NA} :
         LET a == Head(th[t].prims)
             val == [v |-> res, ep |-> IF hasCache THEN epoch ELSE 0]
             r == [th[t] EXCEPT !.snapQ = IF th[t].ki > 0 THEN [@ EXCEPT ![a] = Bump(@)] ELSE @]
         IN  /\ scopeQ' = IF hasCache /\ a \in Memoized
                          THEN [scopeQ EXCEPT ![a] = Bump(@)] ELSE scopeQ
             /\ th' = [th EXCEPT ![t] =
                         IF r.memo THEN [r EXCEPT !.pc = "store", !.got = val]
                         ELSE Returning(r, val)]
    /\ UNCHANGED << rlock, hasCache, cache, epoch, lastExit >>
    /\ DevFrame

(* The wrapper stores the result: self._cache[method] = ret, where an      *)
(* AttributeError (the cache is gone) is swallowed.                        *)
Store(t) ==
    /\ th[t].pc = "store"
    /\ LET a == Head(th[t].prims)
       IN  /\ cache' = IF hasCache THEN [cache EXCEPT ![a] = th[t].got] ELSE cache
           /\ th' = [th EXCEPT ![t] = Returning(th[t], th[t].got)]
    /\ UNCHANGED << rlock, hasCache, epoch, scopeQ, lastExit >>
    /\ DevFrame

(* The backend accessor returns th[t].got to the accessor the caller       *)
(* invoked, which raises, calls its next backend accessor, or returns;     *)
(* inside as_snapshot() the next key follows.                              *)
Return(t) ==
    /\ th[t].pc = "ret"
    /\ LET r == th[t]
           a == Head(r.prims)
           r1 == [r EXCEPT
                    !.first = IF r.scopes # << >> /\ a \in Memoized /\ @[a] = None
                              THEN [@ EXCEPT ![a] = r.got.v] ELSE @,
                    !.got = NoVal]
       IN  th' = [th EXCEPT ![t] =
                IF KeyRaises(r.key, r.got.v)
                THEN [r1 EXCEPT !.pc = IF r.ki > 0 THEN "raise" ELSE "idle",
                                !.prims = << >>, !.key = None]
                ELSE IF Len(r.prims) > 1
                THEN [r1 EXCEPT !.pc = "prim", !.prims = Tail(@)]
                ELSE IF r.ki = 0
                THEN [r1 EXCEPT !.pc = "idle", !.prims = << >>, !.key = None]
                ELSE IF r.ki < Len(SnapshotKeys)
                THEN [r1 EXCEPT !.pc = "prim", !.ki = @ + 1,
                                !.key = SnapshotKeys[r.ki + 1],
                                !.prims = Plan(SnapshotKeys[r.ki + 1])]
                ELSE [r1 EXCEPT !.pc = "snapdone", !.prims = << >>, !.key = None]]
    /\ UNCHANGED << rlock, hasCache, cache, epoch, scopeQ, lastExit >>
    /\ DevFrame

(* "with device.oneshot():" is entered by a caller. *)
EnterOneshot(t) ==
    /\ th[t].pc = "idle"
    /\ OneshotEnter(t)
    /\ th' = [th EXCEPT ![t].scopes = Append(@, ~hasCache)]
    /\ DevFrame

(* The body of a caller's "with device.oneshot():" ends normally. *)
LeaveOneshot(t) ==
    /\ th[t].pc = "idle"
    /\ th[t].scopes # << >>
    /\ OneshotLeave(t, Top(th[t].scopes), FALSE)
    /\ th' = [th EXCEPT ![t] = Left(th[t])]
    /\ UNCHANGED epoch
    /\ DevFrame

(* The body of a caller's "with device.oneshot():" raises. *)
BodyRaises(t) ==
    /\ th[t].pc = "idle"
    /\ th[t].scopes # << >>
    /\ OneshotLeave(t, Top(th[t].scopes), TRUE)
    /\ th' = [th EXCEPT ![t] = Left(th[t])]
    /\ UNCHANGED epoch
    /\ DevFrame

(* Device.as_snapshot(): "with self.oneshot():", then the keys in order. *)
AsSnapshot(t) ==
    /\ th[t].pc = "idle"
    /\ OneshotEnter(t)
    /\ th' = [th EXCEPT ![t].scopes = Append(@, ~hasCache),
                        ![t].ki = 1,
                        ![t].key = SnapshotKeys[1],
                        ![t].prims = Plan(SnapshotKeys[1]),
                        ![t].pc = "prim"]
    /\ DevFrame

(* as_snapshot() has read every key and returns the Snapshot. *)
SnapshotReturn(t) ==
    /\ th[t].pc = "snapdone"
    /\ OneshotLeave(t, Top(th[t].scopes), FALSE)
    /\ th' = [th EXCEPT ![t] = Left(th[t])]
    /\ UNCHANGED epoch
    /\ DevFrame

(* An accessor raised inside as_snapshot(): the exception leaves through   *)
(* the "with" of as_snapshot() and reaches the caller.                     *)
SnapshotRaise(t) ==
    /\ th[t].pc = "raise"
    /\ OneshotLeave(t, Top(th[t].scopes), TRUE)
    /\ th' = [th EXCEPT ![t] = Left(th[t])]
    /\ UNCHANGED epoch
    /\ DevFrame

(* The steps of an accessor call. *)
AccessorStep(t) ==
    \/ Lookup(t)
    \/ BackendQuery(t)
    \/ Store(t)
    \/ Return(t)

(* A thread that opens scopes, takes snapshots and calls accessors. *)
DevStep(t) ==
    \/ \E k \in Keys : CallAccessor(t, k)
    \/ AccessorStep(t)
    \/ EnterOneshot(t)
    \/ LeaveOneshot(t)
    \/ BodyRaises(t)
    \/ AsSnapshot(t)
    \/ SnapshotReturn(t)
    \/ SnapshotRaise(t)

(* A consumer thread: it calls the wrapped accessor memory_info(),         *)
(* outside any scope of its own.                                           *)
ConsumerStep(t) ==
    \/ CallAccessor(t, "memory_info")
    \/ AccessorStep(t)

(***************************************************************************)
(* Part II.  The pyACL session of nputop/api/libascend.py: ascendInit,     *)
(* ascendShutdown, "with libascend:" and nvmlQuery.                        *)
(***************************************************************************)
DevIds == {"d0", "d1"}

(* The names nvmlQuery may be given: two functions of the module that go   *)
(* to pyACL, and ascendDeviceGetPowerLimit, which Device.power_limit()     *)
(* asks for and the module does not define.                                *)
KnownFuncs == {"ascendDeviceGetCount", "ascendDeviceGetMemoryInfo"}
FuncNames == KnownFuncs \cup {"ascendDeviceGetPowerLimit"}

(* The device id a query passes: ascendDeviceGetCount takes none. *)
FuncArgs(f) == IF f = "ascendDeviceGetCount" THEN {None} ELSE DevIds

IdleCaller ==
    [ pc |-> "idle",
      op |-> None,        \* the function the caller invoked
      func |-> None,      \* nvmlQuery: func
      dev |-> None,       \* the dev_id argument, None when absent
      strict |-> FALSE,   \* nvmlQuery: ignore_errors = False
      cont |-> None,      \* where ascendInit returns to
      failed |-> None,    \* history: the step of nvmlQuery that raised
      res |-> None,       \* how the call ended
      inCtx |-> FALSE ]   \* the caller is inside "with libascend:"

AscInit ==
    /\ inited = FALSE
    /\ setDevOnce = FALSE
    /\ setAt = 0
    /\ initLock = NoThread
    /\ nInit = 0
    /\ nFinal = 0
    /\ lt = [t \in Threads |-> IdleCaller]

(* "with __init_lock:" can be entered *)
LockFree == initLock = NoThread

(* The caller record when its call ended with res. *)
Done(r, res) == [r EXCEPT !.pc = "done", !.res = res, !.cont = None]

(* ascendInit(dev_id) called directly. *)
CallInit(t, d) ==
    /\ lt[t].pc = "idle"
    /\ lt' = [lt EXCEPT ![t] = [@ EXCEPT !.pc = "i_lock", !.op = "ascendInit",
                                          !.dev = d, !.cont = "top"]]
    /\ UNCHANGED << inited, setDevOnce, setAt, initLock, nInit, nFinal >>
    /\ AscFrame

(* _CustomModule.__enter__: ascendInit() *)
CtxEnter(t) ==
    /\ lt[t].pc = "idle"
    /\ ~lt[t].inCtx
    /\ lt' = [lt EXCEPT ![t] = [@ EXCEPT !.pc = "i_lock", !.op = "__enter__",
                                          !.dev = None, !.cont = "enter"]]
    /\ UNCHANGED << inited, setDevOnce, setAt, initLock, nInit, nFinal >>
    /\ AscFrame

(* ascendShutdown() called directly. *)
CallShutdown(t) ==
    /\ lt[t].pc = "idle"
    /\ lt' = [lt EXCEPT ![t] = [@ EXCEPT !.pc = "s_lock", !.op = "ascendShutdown"]]
    /\ UNCHANGED << inited, setDevOnce, setAt, initLock, nInit, nFinal >>
    /\ AscFrame

(* _CustomModule.__exit__: ascendShutdown() *)
CtxExit(t) ==
    /\ lt[t].pc = "idle"
    /\ lt[t].inCtx
    /\ lt' = [lt EXCEPT ![t] = [@ EXCEPT !.pc = "s_lock", !.op = "__exit__",
                                          !.inCtx = FALSE]]
    /\ UNCHANGED << inited, setDevOnce, setAt, initLock, nInit, nFinal >>
    /\ AscFrame

(* nvmlQuery(f, d, ignore_errors = ~strict): its first statement is        *)
(* _ensure_init(args[0]) when args[0] is an int, else _ensure_init().      *)
QueryStart(t, f, d, strict) ==
    /\ lt[t].pc = "idle"
    /\ lt' = [lt EXCEPT ![t] = [@ EXCEPT !.pc = "i_lock", !.op = "nvmlQuery",
                                          !.func = f, !.dev = d, !.strict = strict,
                                          !.cont = "q_lookup"]]
    /\ UNCHANGED << inited, setDevOnce, setAt, initLock, nInit, nFinal >>
    /\ AscFrame

(* A mutant of InitEnter: ascendInit does not take __init_lock. *)
InitEnterNoLock(t) ==
    /\ lt[t].pc = "i_lock"
    /\ lt' = [lt EXCEPT ![t].pc = IF inited THEN "i_dev" ELSE "i_init"]
    /\ UNCHANGED << inited, setDevOnce, setAt, initLock, nInit, nFinal >>
    /\ AscFrame

(* ascendInit: "with __init_lock:" and "if not __inited:" *)
InitEnter(t) ==
    /\ lt[t].pc = "i_lock"
    /\ LockFree
    /\ initLock' = t
    /\ lt' = [lt EXCEPT ![t].pc = IF inited THEN "i_dev" ELSE "i_init"]
    /\ UNCHANGED << inited, setDevOnce, setAt, nInit, nFinal >>
    /\ AscFrame

(* ascendInit: acl.init() returns, __inited = True *)
AclInit(t) ==
    /\ lt[t].pc = "i_init"
    /\ nInit < MaxLife
    /\ inited' = TRUE
    /\ nInit' = nInit + 1
    /\ lt' = [lt EXCEPT ![t].pc = "i_dev"]
    /\ UNCHANGED << setDevOnce, setAt, initLock, nFinal >>
    /\ AscFrame

(* ascendInit: acl.init() raises; the "with" releases the lock and the     *)
(* exception reaches the caller of ascendInit, which inside nvmlQuery is   *)
(* its try block.                                                          *)
AclInitRaises(t) ==
    /\ lt[t].pc = "i_init"
    /\ initLock' = IF initLock = t THEN NoThread ELSE initLock
    /\ lt' = [lt EXCEPT ![t] =
                IF lt[t].cont \in {"q_lookup", "f_call"}
                THEN [@ EXCEPT !.pc = "q_except", !.failed = "init", !.cont = None]
                ELSE Done(@, "raised")]
    /\ UNCHANGED << inited, setDevOnce, setAt, nInit, nFinal >>
    /\ AscFrame

(* ascendInit: the set_device part, then the lock is released and          *)
(* ascendInit returns to its caller.                                       *)
InitSetDevice(t) ==
    /\ lt[t].pc = "i_dev"
    /\ setDevOnce' = (setDevOnce \/ lt[t].dev # None)
    /\ setAt' = IF ~setDevOnce /\ lt[t].dev # None THEN nInit ELSE setAt
    /\ initLock' = IF initLock = t THEN NoThread ELSE initLock
    /\ lt' = [lt EXCEPT ![t] =
                CASE lt[t].cont = "top" -> Done(@, "ok")
                  [] lt[t].cont = "enter" -> [Done(@, "ok") EXCEPT !.inCtx = TRUE]
                  [] lt[t].cont = "q_lookup" -> [@ EXCEPT !.pc = "q_lookup", !.cont = None]
                  [] lt[t].cont = "f_call" -> [@ EXCEPT !.pc = "f_call", !.cont = None]]
    /\ UNCHANGED << inited, nInit, nFinal >>
    /\ AscFrame

(* A mutant of QueryLookup: the lookup stands before the try block, so     *)
(* the KeyError of an unknown name reaches the caller.                     *)
QueryLookupOutsideTry(t) ==
    /\ lt[t].pc = "q_lookup"
    /\ lt' = [lt EXCEPT ![t] =
                IF lt[t].func \in KnownFuncs
                THEN [@ EXCEPT !.pc = "i_lock", !.cont = "f_call"]
                ELSE [Done(@, "raised") EXCEPT !.failed = "lookup"]]
    /\ UNCHANGED << inited, setDevOnce, setAt, initLock, nInit, nFinal >>
    /\ AscFrame

(* nvmlQuery: func = globals()[func], a KeyError for a name the module     *)
(* does not define; then the call of func, whose first statement is             *)
(* _ensure_init(dev_id), or _ensure_init() in ascendDeviceGetCount.        *)
QueryLookup(t) ==
    /\ lt[t].pc = "q_lookup"
    /\ lt' = [lt EXCEPT ![t] =
                IF lt[t].func \in KnownFuncs
                THEN [@ EXCEPT !.pc = "i_lock", !.cont = "f_call"]
                ELSE [@ EXCEPT !.pc = "q_except", !.failed = "lookup"]]
    /\ UNCHANGED << inited, setDevOnce, setAt, initLock, nInit, nFinal >>
    /\ AscFrame

(* The pyACL call of the function (acl.rt.get_device_count,                *)
(* acl.rt.get_mem_info) returns, and nvmlQuery returns its value.          *)
BackendCall(t) ==
    /\ lt[t].pc = "f_call"
    /\ lt' = [lt EXCEPT ![t] = Done(@, "value")]
    /\ UNCHANGED << inited, setDevOnce, setAt, initLock, nInit, nFinal >>
    /\ AscFrame

(* The pyACL call of the function raises. *)
BackendCallRaises(t) ==
    /\ lt[t].pc = "f_call"
    /\ lt' = [lt EXCEPT ![t] = [@ EXCEPT !.pc = "q_except", !.failed = "call"]]
    /\ UNCHANGED << inited, setDevOnce, setAt, initLock, nInit, nFinal >>
    /\ AscFrame

(* nvmlQuery: "except Exception: return default", whatever ignore_errors is *)
QueryExcept(t) ==
    /\ lt[t].pc = "q_except"
    /\ lt' = [lt EXCEPT ![t] = Done(@, "default")]
    /\ UNCHANGED << inited, setDevOnce, setAt, initLock, nInit, nFinal >>
    /\ AscFrame

(* A mutant of ShutEnter: ascendShutdown without "if __inited:" *)
ShutEnterUnguarded(t) ==
    /\ lt[t].pc = "s_lock"
    /\ LockFree
    /\ initLock' = t
    /\ lt' = [lt EXCEPT ![t].pc = "s_final"]
    /\ UNCHANGED << inited, setDevOnce, setAt, nInit, nFinal >>
    /\ AscFrame

(* ascendShutdown: "with __init_lock:" and "if __inited:"; when the        *)
(* backend is not initialized the lock is released and nothing is done.    *)
ShutEnter(t) ==
    /\ lt[t].pc = "s_lock"
    /\ LockFree
    /\ IF inited
       THEN /\ initLock' = t
            /\ lt' = [lt EXCEPT ![t].pc = "s_final"]
       ELSE /\ initLock' = initLock
            /\ lt' = [lt EXCEPT ![t] = Done(@, "noop")]
    /\ UNCHANGED << inited, setDevOnce, setAt, nInit, nFinal >>
    /\ AscFrame

(* ascendShutdown: acl.finalize(), __inited = False, the lock is released *)
AclFinalize(t) ==
    /\ lt[t].pc = "s_final"
    /\ nFinal < MaxLife
    /\ inited' = FALSE
    /\ nFinal' = nFinal + 1
    /\ initLock' = NoThread
    /\ lt' = [lt EXCEPT ![t] = Done(@, "finalized")]
    /\ UNCHANGED << setDevOnce, setAt, nInit >>
    /\ AscFrame

(* ascendShutdown: acl.finalize() raises; __inited stays True, the "with"  *)
(* releases the lock and the exception reaches the caller.                 *)
AclFinalizeRaises(t) ==
    /\ lt[t].pc = "s_final"
    /\ initLock' = IF initLock = t THEN NoThread ELSE initLock
    /\ lt' = [lt EXCEPT ![t] = Done(@, "raised")]
    /\ UNCHANGED << inited, setDevOnce, setAt, nInit, nFinal >>
    /\ AscFrame

(* The caller takes the result of its call. *)
Finish(t) ==
    /\ lt[t].pc = "done"
    /\ lt' = [lt EXCEPT ![t] = [IdleCaller EXCEPT !.inCtx = lt[t].inCtx]]
    /\ UNCHANGED << inited, setDevOnce, setAt, initLock, nInit, nFinal >>
    /\ AscFrame

AscStep(t) ==
    \/ \E d \in DevIds \cup {None} : CallInit(t, d)
    \/ CtxEnter(t)
    \/ CallShutdown(t)
    \/ CtxExit(t)
    \/ \E f \in FuncNames : \E d \in FuncArgs(f) : \E strict \in BOOLEAN :
         QueryStart(t, f, d, strict)
    \/ InitEnter(t)
    \/ AclInit(t)
    \/ AclInitRaises(t)
    \/ InitSetDevice(t)
    \/ QueryLookup(t)
    \/ BackendCall(t)
    \/ BackendCallRaises(t)
    \/ QueryExcept(t)
    \/ ShutEnter(t)
    \/ AclFinalize(t)
    \/ AclFinalizeRaises(t)
    \/ Finish(t)

(***************************************************************************)
(* Part III.  The visible-devices parsers: parse_cuda_visible_devices of   *)
(* nputop/api/device.py and _parse_cuda_visible_devices of                 *)
(* nputop/api/device_gpu.py.  A string is its sequence of comma-separated  *)
(* tokens (str.split(",")), a token a sequence of characters; a UUID is    *)
(* one character: "U0" and "U1" are the UUIDs of the devices 0 and 1, "U9" *)
(* is a well-formed UUID of no device.                                     *)
(***************************************************************************)
Digits == {"0", "1", "5"}
Uuids == {"U0", "U1", "U9"}

(* The tokens the strings are made of: indices in and out of range, with  *)
(* leading zeros, blanks, a sign or trailing text, text, UUIDs, and the    *)
(* empty token.                                                            *)
Tokens ==
    { << >>, << "0" >>, << "1" >>, << "5" >>, << "0", "0" >>, << "0", "1" >>,
      << " ", "0" >>, << "1", " " >>, << "1", "x" >>, << "+", "1" >>,
      << "x" >>, << "x", "1" >>, << "+" >>,
      << "U0" >>, << "U1" >>, << "U9" >> }

(* "".split(",") is [""]: every string has at least one token *)
Inputs == UNION { [1 .. k -> Tokens] : k \in 1 .. MaxTokens }

DigitVal(c) == CASE c = "0" -> 0 [] c = "1" -> 1 [] c = "5" -> 5

(* int(tok) of a string of digits *)
RECURSIVE ToInt(_)
ToInt(s) == IF s = << >> THEN 0 ELSE 10 * ToInt(Front(s)) + DigitVal(s[Len(s)])

(* str.isdigit() *)
IsDigit(s) == s # << >> /\ \A i \in 1 .. Len(s) : s[i] \in Digits

(* str.strip() *)
RECURSIVE Strip(_)
Strip(s) ==
    IF s = << >> THEN s
    ELSE IF s[1] = " " THEN Strip(Tail(s))
    ELSE IF s[Len(s)] = " " THEN Strip(Front(s))
    ELSE s

(* Device.UUID_PATTERN.match(s) is not None *)
IsUuid(s) == Len(s) = 1 /\ s[1] \in Uuids

(* The device a UUID names: its index, or -1 for no device. *)
UuidDevice(u) == CASE u = "U0" -> 0 [] u = "U1" -> 1 [] OTHER -> -1

(* Device.count() *)
DeviceCount == NDevices

(* device.parse_cuda_visible_devices(S): an empty string gives every       *)
(* device; else the tokens that are digits after strip(), as integers, in  *)
(* order; every other token is skipped.                                    *)
RECURSIVE AscendIds(_)
AscendIds(toks) ==
    IF toks = << >> THEN << >>
    ELSE LET tok == Strip(Head(toks))
         IN  IF IsDigit(tok)
             THEN << ToInt(tok) >> \o AscendIds(Tail(toks))
             ELSE AscendIds(Tail(toks))

ParseAscend(toks) ==
    IF toks = << << >> >>
    THEN [i \in 1 .. DeviceCount |-> i - 1]
    ELSE AscendIds(toks)

(* _parse_cuda_visible_devices.strip_identifier: strip(), then a token     *)
(* that starts with a digit, or with a sign and a digit, is cut after its  *)
(* leading digits.                                                         *)
RECURSIVE DigitPrefix(_, _)
DigitPrefix(s, offset) ==
    IF offset < Len(s) /\ s[offset + 1] \in Digits
    THEN DigitPrefix(s, offset + 1)
    ELSE offset

StripIdentifier(raw) ==
    LET id == Strip(raw)
    IN  IF Len(id) > 0
           /\ (id[1] \in Digits
               \/ (Len(id) > 1 /\ id[1] \in {"+", "-"} /\ id[2] \in Digits))
        THEN SubSeq(id, 1, DigitPrefix(id, IF id[1] \in {"+", "-"} THEN 1 ELSE 0))
        ELSE id

(* _parse_cuda_visible_devices.from_index_or_uuid(id) with                 *)
(* use_integer_identifiers = use ("unset", "int" or "uuid"): the index of  *)
(* the Device it returns, or -1 when it raises (NVMLError_NotFound for a   *)
(* token that is neither digits nor a UUID, ValueError for the other       *)
(* addressing scheme, the NVMLError of Device() for an index out of range  *)
(* or a UUID of no device).                                                *)
FromIndexOrUuid(id, use) ==
    LET isInt == IsDigit(id)
        use2 == IF use = "unset" THEN (IF isInt THEN "int" ELSE "uuid") ELSE use
    IN  IF ~isInt /\ ~IsUuid(id) THEN [dev |-> -1, use |-> use]
        ELSE IF isInt /\ use2 = "int"
        THEN [dev |-> IF ToInt(id) < NDevices THEN ToInt(id) ELSE -1, use |-> use2]
        ELSE IF ~isInt /\ use2 = "uuid"
        THEN [dev |-> UuidDevice(id[1]), use |-> use2]
        ELSE [dev |-> -1, use |-> use2]

(* The loop of _parse_cuda_visible_devices over the identifiers: a         *)
(* repeated identifier returns [], an identifier that does not resolve     *)
(* ends the loop, and the indices of the devices are returned.             *)
RECURSIVE GpuLoop(_, _, _, _)
GpuLoop(toks, devices, presented, use) ==
    IF toks = << >> THEN devices
    ELSE LET id == StripIdentifier(Head(toks))
             r == FromIndexOrUuid(id, use)
         IN  IF id \in presented THEN << >>
             ELSE IF r.dev = -1 THEN devices
             ELSE GpuLoop(Tail(toks), Append(devices, r.dev), presented \cup {id}, r.use)

ParseGpu(toks) == GpuLoop(toks, << >>, {}, "unset")

(* No string was given yet: the empty string. *)
ParIdle ==
    /\ pIn = << << >> >>
    /\ pDone = FALSE
    /\ pOut = << >>
    /\ pOutGpu = << >>

ParInit ==
    /\ pIn \in Inputs
    /\ pDone = FALSE
    /\ pOut = << >>
    /\ pOutGpu = << >>

(* Both parsers are called with the string pIn. *)
Parse ==
    /\ ~pDone
    /\ pDone' = TRUE
    /\ pOut' = ParseAscend(pIn)
    /\ pOutGpu' = ParseGpu(pIn)
    /\ pIn' = pIn
    /\ ParFrame

(***************************************************************************)
(* Part IV.  Repeated calls of the parsers: the environment fallback of    *)
(* device.parse_cuda_visible_devices and the lru_cache in front of         *)
(* device_gpu._parse_cuda_visible_devices.  An optional string is a record *)
(* [some, toks]; None is NoStr.                                            *)
(***************************************************************************)
NoStr == [some |-> FALSE, toks |-> << >>]
Str(toks) == [some |-> TRUE, toks |-> toks]

(* The arguments of the calls: the argument left out, None, and strings. *)
ArgIds == {"omitted", "none", "0,1", "1,x,0", "1"}

ArgStr(a) ==
    CASE a \in {"omitted", "none"} -> NoStr
      [] a = "0,1" -> Str(<< << "0" >>, << "1" >> >>)
      [] a = "1,x,0" -> Str(<< << "1" >>, << "x" >>, << "0" >> >>)
      [] a = "1" -> Str(<< << "1" >> >>)

(* The values an environment variable takes: unset, "" and "1". *)
EnvVals == {NoStr, Str(<< << >> >>), Str(<< << "1" >> >>)}

(* bool(s) of an optional string: None and "" are false *)
Truthy(s) == s.some /\ s.toks # << << >> >>

AllDevices == [i \in 1 .. NDevices |-> i - 1]

(* device._env_visible_devices() *)
EnvVisibleDevices ==
    IF Truthy(envAscend) THEN envAscend
    ELSE IF Truthy(envCuda) THEN envCuda
    ELSE NoStr

(* device.parse_cuda_visible_devices(s) of an optional string *)
AscendParseCall(s) ==
    LET eff == IF s.some THEN s ELSE EnvVisibleDevices
    IN  IF ~Truthy(eff) THEN AllDevices ELSE AscendIds(eff.toks)

(* The key device_gpu.parse_cuda_visible_devices(a) passes on: the         *)
(* argument, or CUDA_VISIBLE_DEVICES when it is left out.                  *)
GpuKey(a) == IF a = "omitted" THEN envCuda ELSE ArgStr(a)

(* The body of _parse_cuda_visible_devices: None stands for the UUIDs of   *)
(* all physical devices, each of which resolves to its device.             *)
GpuBody(key) == IF key.some THEN ParseGpu(key.toks) ELSE AllDevices

(* functools.lru_cache: the position of the entry of key, 0 for a miss *)
LruFind(key) ==
    IF \E i \in 1 .. Len(lru) : lru[i].key = key
    THEN CHOOSE i \in 1 .. Len(lru) : lru[i].key = key
    ELSE 0

Without(q, i) == SubSeq(q, 1, i - 1) \o SubSeq(q, i + 1, Len(q))

(* A mutant of LruAfter: a miss stores its result under the key of the     *)
(* most recent entry.                                                      *)
LruAfterFrontKey(key) ==
    LET i == LruFind(key)
    IN  IF i > 0 THEN << lru[i] >> \o Without(lru, i)
        ELSE IF lru = << >> THEN << [key |-> key, val |-> GpuBody(key)] >>
        ELSE << [key |-> lru[1].key, val |-> GpuBody(key)] >> \o Tail(lru)

(* functools.lru_cache after the call with key: a hit moves the entry to   *)
(* the front, a miss stores the result and drops the least recent entry    *)
(* of a full cache.                                                        *)
LruAfter(key) ==
    LET i == LruFind(key)
    IN  IF i > 0 THEN << lru[i] >> \o Without(lru, i)
        ELSE LET q == << [key |-> key, val |-> GpuBody(key)] >> \o lru
             IN  IF Len(q) > LruSize THEN SubSeq(q, 1, LruSize) ELSE q

LruResult(key) ==
    LET i == LruFind(key) IN IF i > 0 THEN lru[i].val ELSE GpuBody(key)

NoCall == [arg |-> "nocall", asc |-> << >>, gpu |-> << >>, again |-> FALSE, hit |-> FALSE]
Unset == [set |-> FALSE, asc |-> << >>, gpu |-> << >>]

ResInit ==
    /\ envAscend = NoStr
    /\ envCuda = NoStr
    /\ lru = << >>
    /\ rFirst = [a \in ArgIds |-> Unset]
    /\ rLast = NoCall

(* Both parsers are called with the argument a. *)
ParseCall(a) ==
    LET asc == AscendParseCall(ArgStr(a))
        gpu == LruResult(GpuKey(a))
    IN  /\ rLast' = [arg |-> a, asc |-> asc, gpu |-> gpu, again |-> rFirst[a].set,
                      hit |-> LruFind(GpuKey(a)) > 0]
        /\ lru' = LruAfter(GpuKey(a))
        /\ rFirst' = IF rFirst[a].set THEN rFirst
                     ELSE [rFirst EXCEPT ![a] = [set |-> TRUE, asc |-> asc, gpu |-> gpu]]
        /\ UNCHANGED << envAscend, envCuda >>
        /\ ResFrame

(* The environment changes: the calls that read it start anew. *)
Forget(f, zero) == [a \in ArgIds |-> IF a \in {"omitted", "none"} THEN zero ELSE f[a]]

SetEnv(ascend, cuda) ==
    /\ << ascend, cuda >> # << envAscend, envCuda >>
    /\ envAscend' = ascend
    /\ envCuda' = cuda
    /\ rFirst' = Forget(rFirst, Unset)
    /\ rLast' = NoCall
    /\ UNCHANGED lru
    /\ ResFrame

(***************************************************************************)
(* Part V.  The memory accessors.  A value is a record [k, n]: an int, a   *)
(* float given in tenths, NA, or "raised" for a call that ended with an    *)
(* exception; a MemoryInfo is a record of three values.                    *)
(***************************************************************************)
IntVal(n) == [k |-> "int", n |-> n]
TenthsVal(n) == [k |-> "float", n |-> n]
NaVal == [k |-> "na", n |-> 0]
RaisedVal == [k |-> "raised", n |-> 0]
PendingVal == [k |-> "pending", n |-> 0]

MemInfo(total, free, used) == [k |-> "info", total |-> total, free |-> free, used |-> used]

(* The plain string "N/A" nvmlQuery returns as its default: it has no      *)
(* attributes total, free, used.                                           *)
NaStr == [k |-> "str", total |-> NaVal, free |-> NaVal, used |-> NaVal]

(* The answers of the backend: free and total bytes, free <= total, or a   *)
(* failure.                                                                *)
RawMem ==
    { [ok |-> TRUE, free |-> ft[1], total |-> ft[2]] :
        ft \in { p \in (0 .. MaxBytes) \X (0 .. MaxBytes) : p[1] <= p[2] } }
    \cup { [ok |-> FALSE, free |-> 0, total |-> 0] }

(* round(100.0 * used / total, 1), in tenths: the nearest tenth, a tie     *)
(* going to the even one.                                                  *)
RoundPercent(used, total) ==
    LET q == (1000 * used) \div total
        r == (1000 * used) % total
    IN  IF 2 * r > total \/ (2 * r = total /\ q % 2 = 1) THEN q + 1 ELSE q

(* A mutant of AscendGetMemoryInfo: used = free - total. *)
AscendGetMemoryInfoReversed(raw) ==
    IF raw.ok
    THEN MemInfo(IntVal(raw.total), IntVal(raw.free), IntVal(raw.free - raw.total))
    ELSE NaStr

(* nvmlQuery("ascendDeviceGetMemoryInfo", index): used = total - free, and *)
(* the default when acl.rt.get_mem_info raises.                            *)
AscendGetMemoryInfo(raw) ==
    IF raw.ok
    THEN MemInfo(IntVal(raw.total), IntVal(raw.free), IntVal(raw.total - raw.free))
    ELSE NaStr

(* x.total, x.free, x.used: AttributeError on a string *)
Attr(x, f) == IF x.k = "info" THEN x[f] ELSE RaisedVal

(* device.Device.memory_percent *)
AscendMemoryPercent(info) ==
    LET total == Attr(info, "total")
        used == Attr(info, "used")
    IN  IF total.k = "raised" THEN RaisedVal
        ELSE IF total.k = "int" /\ total.n # 0
        THEN IF used.k = "int" THEN TenthsVal(RoundPercent(used.n, total.n)) ELSE RaisedVal
        ELSE NaVal

(* nvmlCheckReturn(value) and nvmlCheckReturn(value, int) *)
CheckReturn(v) == v.k \notin {"na", "str"}
CheckReturnInt(v) == v.k = "int"

(* device_gpu.Device.memory_info over the answer of the query *)
GpuMemoryInfo(q) ==
    IF CheckReturn(q) THEN MemInfo(q.total, q.free, q.used) ELSE MemInfo(NaVal, NaVal, NaVal)

(* device_gpu.Device.memory_percent: the division has no test for zero *)
GpuMemoryPercent(info) ==
    IF CheckReturnInt(info.used) /\ CheckReturnInt(info.total)
    THEN IF info.total.n = 0 THEN RaisedVal
         ELSE TenthsVal(RoundPercent(info.used.n, info.total.n))
    ELSE NaVal

MemAccessors ==
    {"memory_info", "memory_total", "memory_used", "memory_free", "memory_percent",
     "gpu.memory_info", "gpu.memory_percent"}

(* The accessor name called on the device whose backend answers raw. *)
MemCall(name, raw) ==
    LET info == AscendGetMemoryInfo(raw)
    IN  CASE name = "memory_info" -> info
          [] name = "memory_total" -> Attr(info, "total")
          [] name = "memory_used" -> Attr(info, "used")
          [] name = "memory_free" -> Attr(info, "free")
          [] name = "memory_percent" -> AscendMemoryPercent(info)
          [] name = "gpu.memory_info" -> GpuMemoryInfo(info)
          [] name = "gpu.memory_percent" -> GpuMemoryPercent(GpuMemoryInfo(info))

MemIdle ==
    /\ mRaw = [ok |-> FALSE, free |-> 0, total |-> 0]
    /\ mRes = [a \in MemAccessors |-> PendingVal]

MemInit ==
    /\ mRaw \in RawMem
    /\ mRes = [a \in MemAccessors |-> PendingVal]

(* The accessor name is called. *)
CallMemAccessor(name) ==
    /\ mRes[name] = PendingVal
    /\ mRes' = [mRes EXCEPT ![name] = MemCall(name, mRaw)]
    /\ UNCHANGED mRaw
    /\ MemFrame

(***************************************************************************)
(* Part VI.  device_gpu.Device.nvlink_throughput: the rate of one link     *)
(* from two samples (counter, timestamp) of its counter.                   *)
(***************************************************************************)
ThroughputScale == 1000000

Counters == { IntVal(c) : c \in 0 .. MaxCounter } \cup {NaVal}

Samples == { [c |-> c, ts |-> ts] : c \in Counters, ts \in 0 .. MaxStamp }

(* round(num / den) for den > 0: the nearest integer, a tie going to the   *)
(* even one.                                                               *)
RoundDiv(num, den) ==
    LET q == num \div den
        r == num % den
    IN  IF 2 * r > den \/ (2 * r = den /\ q % 2 = 1) THEN q + 1 ELSE q

(* The body of the loop of nvlink_throughput for one counter. *)
LinkThroughput(old, new) ==
    IF CheckReturnInt(old.c) /\ CheckReturnInt(new.c) /\ new.ts > old.ts
    THEN IntVal(RoundDiv(ThroughputScale * (new.c.n - old.c.n), new.ts - old.ts))
    ELSE NaVal

LinkIdle ==
    /\ lOld = [c |-> NaVal, ts |-> 0]
    /\ lNew = [c |-> NaVal, ts |-> 0]
    /\ lOut = PendingVal

LinkInit ==
    /\ lOld \in Samples
    /\ lNew \in Samples
    /\ lOut = PendingVal

(* nvlink_throughput() computes the rate from the two samples. *)
ComputeThroughput ==
    /\ lOut = PendingVal
    /\ lOut' = LinkThroughput(lOld, lNew)
    /\ UNCHANGED << lOld, lNew >>
    /\ LinkFrame

(***************************************************************************)
(* Part VII.  The lazily stored fields: Device.name() and                  *)
(* Device.memory_total_human(), called cycle after cycle while the backend *)
(* fails and recovers.                                                     *)
(***************************************************************************)
SocName == "Ascend910B"
TotalHuman == "64GiB"
LazyAccessors == {"name", "gpu.name", "memory_total_human"}

(* nvmlQuery(...) of a string-valued function: its value, or the default *)
QueryName == IF backendUp THEN SocName ELSE NA

NoDiscovery == [called |-> FALSE, up |-> TRUE, count |-> 0, devices |-> << >>, raised |-> FALSE]

LazyInit ==
    /\ backendUp = TRUE
    /\ devName = "None"
    /\ gpuName = NA
    /\ totalHuman = NA
    /\ lazyLast = [acc |-> "nocall", up |-> TRUE, res |-> NA, queried |-> FALSE]
    /\ found = NoDiscovery

(* The backend starts to fail, or recovers. *)
BackendFlips ==
    /\ backendUp' = ~backendUp
    /\ UNCHANGED << devName, gpuName, totalHuman, lazyLast, found >>
    /\ LazyFrame

(* device.Device.name: self._name after "if self._name is None: ..." *)
NameStored == IF devName = "None" THEN QueryName ELSE devName

(* device.Device.name() *)
CallName ==
    /\ devName' = NameStored
    /\ lazyLast' = [acc |-> "name", up |-> backendUp, res |-> devName',
                    queried |-> devName = "None"]
    /\ UNCHANGED << backendUp, gpuName, totalHuman, found >>
    /\ LazyFrame

(* device_gpu.Device.name(): "if self._name is NA: ..." *)
CallGpuName ==
    /\ gpuName' = IF gpuName = NA THEN QueryName ELSE gpuName
    /\ lazyLast' = [acc |-> "gpu.name", up |-> backendUp, res |-> gpuName',
                    queried |-> gpuName = NA]
    /\ UNCHANGED << backendUp, devName, totalHuman, found >>
    /\ LazyFrame

(* device.Device.memory_total_human(): bytes2human(self.memory_total()) is *)
(* stored when memory_total() returns; when the memory query fails,        *)
(* memory_total() raises and nothing is stored.                            *)
CallMemoryTotalHuman ==
    /\ totalHuman' = IF totalHuman = NA /\ backendUp THEN TotalHuman ELSE totalHuman
    /\ lazyLast' = [acc |-> "memory_total_human", up |-> backendUp,
                    res |-> IF totalHuman = NA /\ ~backendUp THEN "raised" ELSE totalHuman',
                    queried |-> totalHuman = NA]
    /\ UNCHANGED << backendUp, devName, gpuName, found >>
    /\ LazyFrame

(* device.Device.count(): nvmlQuery("ascendDeviceGetCount", default=0).    *)
(* A failure of ascendInit or of acl.rt.get_device_count is caught inside  *)
(* nvmlQuery, which returns the default.                                   *)
Count == IF backendUp THEN NDevices ELSE 0

(* device.Device.from_indices(None): a Device for each of range(count()) *)
FromIndices == [i \in 1..Count |-> i - 1]

(* Discovery as cli.main does it: Device.count(), then from_indices. No    *)
(* exception reaches the caller, so neither except clause of main runs.    *)
Discover ==
    /\ found' = [called |-> TRUE, up |-> backendUp, count |-> Count,
                 devices |-> FromIndices, raised |-> FALSE]
    /\ UNCHANGED << backendUp, devName, gpuName, totalHuman, lazyLast >>
    /\ LazyFrame

(***************************************************************************)
(* Part VIII.  The stubs of device.py: after the class body, every name of *)
(* SNAPSHOT_KEYS the class lacks is set to a method returning NA.          *)
(***************************************************************************)
SNAPSHOT_KEYS == <<
    "name", "uuid", "bus_id",
    "memory_info",
    "memory_used", "memory_free", "memory_total",
    "memory_used_human", "memory_free_human", "memory_total_human",
    "memory_percent", "memory_usage",
    "utilization_rates",
    "npu_utilization", "memory_utilization",
    "encoder_utilization", "decoder_utilization",
    "clock_infos", "max_clock_infos", "clock_speed_infos",
    "sm_clock", "memory_clock", "video_clock",
    "fan_speed", "temperature",
    "power_usage", "power_limit", "power_status",
    "pcie_throughput", "pcie_tx_throughput", "pcie_rx_throughput",
    "pcie_tx_throughput_human", "pcie_rx_throughput_human",
    "display_active", "display_mode", "current_driver_model",
    "persistence_mode", "performance_state",
    "total_volatile_uncorrected_ecc_errors",
    "compute_mode", "cuda_compute_capability" >>

(* The attributes the class body of Device defines. *)
ClassBody == {
    "NPU_PROCESS_CLASS", "from_indices", "index", "physical_index",
    "name", "uuid", "bus_id", "count",
    "driver_version", "cuda_driver_version", "max_cuda_version",
    "display_active", "display_mode", "current_driver_model", "driver_model",
    "persistence_mode", "compute_mode", "mig_mode",
    "is_mig_mode_enabled", "is_mig_device", "performance_state",
    "fan_speed", "temperature", "power_usage", "power_limit", "power_status",
    "memory_info", "memory_total", "memory_used", "memory_free",
    "memory_total_human", "memory_used_human", "memory_free_human",
    "memory_percent", "memory_usage",
    "utilization_rates", "npu_utilization", "gpu_utilization",
    "memory_utilization", "encoder_utilization", "decoder_utilization",
    "processes", "oneshot", "SNAPSHOT_KEYS", "as_snapshot" }

StubInit ==
    /\ stubs = {}
    /\ stubAt = 1
    /\ stubLast = [key |-> "nocall", nargs |-> 0, res |-> "nocall"]

(* A mutant of HasAttr: every name counts as present. *)
HasAttrAlways(name) == name = name

(* hasattr(Device, name) *)
HasAttr(name) == name \in ClassBody \cup stubs

(* One turn of "for _name in Device.SNAPSHOT_KEYS: if not hasattr(...)" *)
InstallStub ==
    /\ stubAt <= Len(SNAPSHOT_KEYS)
    /\ stubs' = IF HasAttr(SNAPSHOT_KEYS[stubAt])
                  THEN stubs
                  ELSE stubs \cup {SNAPSHOT_KEYS[stubAt]}
    /\ stubAt' = stubAt + 1
    /\ UNCHANGED stubLast
    /\ StubFrame

(* getattr(self, k)(args...) once the module is imported: _impl returns NA   *)
(* whatever its arguments; a method of the class body is not followed      *)
(* here; a name that is absent raises AttributeError.                      *)
GetAttrCall(k, nargs) ==
    IF k \in stubs THEN NA
    ELSE IF k \in ClassBody THEN "implemented"
    ELSE "AttributeError"

(* as_snapshot's getattr(self, k)() and any other call of a key *)
CallKey(i, nargs) ==
    /\ stubAt > Len(SNAPSHOT_KEYS)
    /\ stubLast' = [key |-> SNAPSHOT_KEYS[i], nargs |-> nargs,
                    res |-> GetAttrCall(SNAPSHOT_KEYS[i], nargs)]
    /\ UNCHANGED << stubs, stubAt >>
    /\ StubFrame

(***************************************************************************)
(* Part IX.  Equality and hash of Device objects: device.py (Ascend) and   *)
(* device_gpu.py (Device and its subclass CudaDevice).                     *)
(***************************************************************************)
Units == 0 .. NDevices - 1
NoCuda == -1
NoObject == [mod |-> "none", cls |-> "none", via |-> "none",
             index |-> -1, uuid |-> [tag |-> "none", n |-> -1], cuda |-> NoCuda]

(* device.Device.uuid(): f"ASCEND-{self.index:02d}" *)
AscendUuid(i) == [tag |-> "ASCEND", n |-> i]

(* device_gpu: the UUID the driver reports for unit d *)
GpuUuid(d) == [tag |-> "GPU", n |-> d]

(* list.index: the position of d in the visible list, counted from 0 *)
PositionOf(d, visible) == (CHOOSE k \in 1 .. Len(visible) : visible[k] = d) - 1

(* device.Device(index); CudaDevice is the same class there *)
AscendDevice(i) ==
    [mod |-> "ascend", cls |-> "Device", via |-> "index",
     index |-> i, uuid |-> AscendUuid(i), cuda |-> NoCuda]

(* device_gpu.Device(index=d) or Device(uuid=...): the handle gives both   *)
(* the index and the uuid; _cuda_index stays None                          *)
GpuDevice(via, d) ==
    [mod |-> "gpu", cls |-> "Device", via |-> via,
     index |-> d, uuid |-> GpuUuid(d), cuda |-> NoCuda]

(* device_gpu.CudaDevice(cuda_index) / (nvml_index=d) / (uuid=...) *)
GpuCudaDevice(via, d) ==
    [mod |-> "gpu", cls |-> "CudaDevice", via |-> via,
     index |-> d, uuid |-> GpuUuid(d), cuda |-> PositionOf(d, cudaVisible)]

(* self._ident: (index, uuid) for Device, ((cuda_index, index), uuid) for  *)
(* CudaDevice; an int never equals a tuple, which cuda = NoCuda keeps.     *)
Ident(o) == [cuda |-> o.cuda, index |-> o.index, uuid |-> o.uuid]

(* __eq__: device.py compares index; device_gpu compares _ident *)
DeviceEq(a, b) ==
    IF a.mod = "ascend" THEN a.index = b.index ELSE Ident(a) = Ident(b)

(* __hash__: hash((index, uuid())) or hash(self._ident), hash taken as the *)
(* tuple itself                                                            *)
DeviceHash(o) ==
    IF o.mod = "ascend"
      THEN [cuda |-> NoCuda, index |-> o.index, uuid |-> o.uuid]
      ELSE Ident(o)

EqIdle ==
    /\ cudaVisible = AllDevices
    /\ objA = NoObject
    /\ objB = NoObject
    /\ eqLast = [called |-> FALSE, eq |-> FALSE, hashA |-> Ident(NoObject), hashB |-> Ident(NoObject)]

(* CUDA_VISIBLE_DEVICES names the devices in order or reversed; objects    *)
(* are built afterwards.                                                   *)
SetVisible(reversed) ==
    /\ objA = NoObject /\ objB = NoObject
    /\ cudaVisible' = IF reversed
                        THEN [k \in 1 .. NDevices |-> NDevices - k]
                        ELSE AllDevices
    /\ UNCHANGED << objA, objB, eqLast >>
    /\ EqFrame

Constructed(o) ==
    /\ ~eqLast.called
    /\ \/ objA' = o /\ UNCHANGED objB
       \/ objB' = o /\ UNCHANGED objA
    /\ UNCHANGED << cudaVisible, eqLast >>
    /\ EqFrame

NewAscendDevice(i) ==
    /\ {objA.mod, objB.mod} \subseteq {"none", "ascend"}
    /\ Constructed(AscendDevice(i))

NewGpuDevice(via, d) ==
    /\ {objA.mod, objB.mod} \subseteq {"none", "gpu"}
    /\ Constructed(GpuDevice(via, d))

NewCudaDevice(via, d) ==
    /\ {objA.mod, objB.mod} \subseteq {"none", "gpu"}
    /\ Constructed(GpuCudaDevice(via, d))

(* a == b, hash(a), hash(b) *)
Compare ==
    /\ objA # NoObject /\ objB # NoObject
    /\ eqLast' = [called |-> TRUE, eq |-> DeviceEq(objA, objB),
                  hashA |-> DeviceHash(objA), hashB |-> DeviceHash(objB)]
    /\ UNCHANGED << cudaVisible, objA, objB >>
    /\ EqFrame

(* The pair is dropped. *)
DropObjects ==
    /\ eqLast.called
    /\ objA' = NoObject /\ objB' = NoObject
    /\ eqLast' = [eqLast EXCEPT !.called = FALSE]
    /\ UNCHANGED cudaVisible
    /\ EqFrame

(***************************************************************************)
(* Part X.  Field reads served by npu-smi: libascend._run_smi and its      *)
(* callers, read through the GUI Device whose ttl_cache wraps temperature  *)
(* and power_usage.                                                        *)
(***************************************************************************)
Ttl == 5
SmiFields == {"temperature", "power_usage", "utilization_rates", "processes"}
TtlFields == {"temperature", "power_usage"}
Fates == {"exit0_match", "exit0_nomatch", "exit0_empty", "nonzero", "never"}
NoSmiCall == [pc |-> "idle", field |-> "none", dev |-> 0, cmd |-> 0,
              fate |-> "none", out |-> "none"]

SmiIdle ==
    /\ ttlLeft = [e \in TtlFields \X Units |-> 0]
    /\ smiAge = Ttl
    /\ smiGap = Ttl
    /\ smiCall = NoSmiCall

(* A second passes. *)
Tick ==
    /\ ttlLeft' = [e \in DOMAIN ttlLeft |-> IF ttlLeft[e] > 0 THEN ttlLeft[e] - 1 ELSE 0]
    /\ smiAge' = IF smiAge < Ttl THEN smiAge + 1 ELSE Ttl
    /\ smiAge' # smiAge \/ ttlLeft' # ttlLeft
    /\ UNCHANGED << smiGap, smiCall >>
    /\ SmiFrame

(* subprocess.run(cmd.split(), stdout=PIPE, text=True, check=True) starts; *)
(* no timeout is passed, the caller waits for the subprocess.              *)
RunSmi(field, dev, cmd, fate) ==
    /\ smiCall' = [pc |-> "waiting", field |-> field, dev |-> dev, cmd |-> cmd,
                   fate |-> fate, out |-> "none"]
    /\ smiGap' = smiAge
    /\ smiAge' = 0

(* ttl_cache(ttl=5.0)(DeviceBase.temperature): a live entry answers *)
TtlHit(field, dev) == field \in TtlFields /\ ttlLeft[<< field, dev >>] > 0

(* A field of a device is read with a live ttl_cache entry. *)
ReadCached(field, dev) ==
    /\ smiCall.pc = "idle"
    /\ TtlHit(field, dev)
    /\ UNCHANGED << ttlLeft, smiAge, smiGap, smiCall >>
    /\ SmiFrame

(* A field of a device is read: the accessor runs and its first npu-smi    *)
(* starts. utilization_rates gets here when the ACL call failed.           *)
ReadField(field, dev, fate) ==
    /\ smiCall.pc = "idle"
    /\ ~TtlHit(field, dev)
    /\ RunSmi(field, dev, 1, fate)
    /\ UNCHANGED ttlLeft
    /\ SmiFrame

(* utilization_rates when acl.rt.get_device_utilization_rate answers *)
ReadUtilizationAcl(dev) ==
    /\ smiCall.pc = "idle"
    /\ UNCHANGED << ttlLeft, smiAge, smiGap, smiCall >>
    /\ SmiFrame

(* What _run_smi returns: stdout, or "" on any exception *)
SmiOutput(fate) ==
    CASE fate = "exit0_match" -> "match"
      [] fate = "exit0_nomatch" -> "nomatch"
      [] OTHER -> "empty"

(* The subprocess exits and _run_smi returns. *)
SmiExits ==
    /\ smiCall.pc = "waiting"
    /\ smiCall.fate # "never"
    /\ smiCall' = [smiCall EXCEPT !.pc = "returned", !.out = SmiOutput(smiCall.fate)]
    /\ UNCHANGED << ttlLeft, smiAge, smiGap >>
    /\ SmiFrame

(* temperature falls back to "watch" when the pattern did not match;       *)
(* processes falls back to "-t proc" when the output was empty.            *)
NeedsSecond(c) ==
    /\ c.cmd = 1
    /\ \/ c.field = "temperature" /\ c.out # "match"
       \/ c.field = "processes" /\ c.out = "empty"

(* The accessor goes on after _run_smi returned: the second command. *)
ReadSecond(fate) ==
    /\ smiCall.pc = "returned"
    /\ NeedsSecond(smiCall)
    /\ RunSmi(smiCall.field, smiCall.dev, 2, fate)
    /\ UNCHANGED ttlLeft
    /\ SmiFrame

(* The accessor returns; ttl_cache stores what it returned. *)
ReadReturns ==
    /\ smiCall.pc = "returned"
    /\ ~NeedsSecond(smiCall)
    /\ ttlLeft' = IF smiCall.field \in TtlFields
                    THEN [ttlLeft EXCEPT ![<< smiCall.field, smiCall.dev >>] = Ttl]
                    ELSE ttlLeft
    /\ smiCall' = NoSmiCall
    /\ UNCHANGED << smiAge, smiGap >>
    /\ SmiFrame

(***************************************************************************)
(* Part XI.  The process list of one device, parsed cycle after cycle:     *)
(* libascend.ascendDeviceGetProcessInfo.                                   *)
(***************************************************************************)
MiB == 1024 * 1024

(* A line of output: a row "pid mem" that _PROC_RE matches, the line "No   *)
(* running processes found in NPU K", or any other line.                   *)
ProcLines == { [kind |-> "row", pid |-> 1, mb |-> 1], [kind |-> "row", pid |-> 2, mb |-> 3],
               [kind |-> "marker", pid |-> 0, mb |-> 0], [kind |-> "other", pid |-> 0, mb |-> 0] }
ProcTexts == UNION { [1 .. k -> ProcLines] : k \in 0 .. MaxLines }

(* _PROC_RE.findall(txt), each match made a Proc(pid, usedNpuMemory) *)
RECURSIVE ProcsOf(_)
ProcsOf(txt) ==
    IF txt = << >> THEN << >>
    ELSE IF Head(txt).kind = "row"
      THEN << [pid |-> Head(txt).pid, usedNpuMemory |-> Head(txt).mb * MiB] >> \o ProcsOf(Tail(txt))
      ELSE ProcsOf(Tail(txt))

(* The text parsed: "-t proc-mem", or "-t proc" when that gave nothing *)
ProcTextUsed(first, second) == IF first = << >> THEN second ELSE first

(* ascendDeviceGetProcessInfo(dev_id) *)
AscendGetProcessInfo(first, second) == ProcsOf(ProcTextUsed(first, second))

ProcIdle ==
    /\ procText = << >>
    /\ procPrev = << >>
    /\ procNow = << >>

(* One cycle: the process list of the device is read again. *)
ParseProcesses(first, second) ==
    /\ procText' = ProcTextUsed(first, second)
    /\ procPrev' = procNow
    /\ procNow' = AscendGetProcessInfo(first, second)
    /\ ProcFrame

(***************************************************************************)
(* Part XII.  The table refresh libascend._update_cache(raw), which the    *)
(* tests call: each device record of the npu-smi table carries its NPU id  *)
(* and chip id, and gets a logical index.                                  *)
(***************************************************************************)
ChipsPerNpu == 2
NativeIds == [npu_id : Units, chip_id : 0 .. ChipsPerNpu - 1]

(* The tables: the records of distinct devices, in any order. *)
Tables ==
    { t \in UNION { [1 .. k -> NativeIds] : k \in 0 .. MaxRecords } :
        \A i, j \in 1 .. Len(t) : t[i] = t[j] => i = j }

(* (NPU id, chip id) compared as a pair *)
NativeLess(a, b) ==
    \/ a.npu_id < b.npu_id
    \/ a.npu_id = b.npu_id /\ a.chip_id < b.chip_id

(* The rank of record r among the records of the table. *)
RankIn(t, r) == Cardinality({ i \in 1 .. Len(t) : NativeLess(t[i], r) })

(* A mutant of CacheAfter: records of the cache are only overwritten. *)
CacheAfterKeepsOld(t) ==
    [ k \in (0 .. Len(t) - 1) \cup DOMAIN cacheRec |->
        IF k < Len(t) THEN CHOOSE r \in { t[i] : i \in 1 .. Len(t) } : RankIn(t, r) = k
        ELSE cacheRec[k] ]

(* _CACHE after _update_cache(raw): each record under its rank *)
CacheAfter(t) ==
    [ k \in 0 .. Len(t) - 1 |->
        CHOOSE r \in { t[i] : i \in 1 .. Len(t) } : RankIn(t, r) = k ]

(* sorted(_CACHE): the keys in ascending order *)
RECURSIVE SortedKeys(_)
SortedKeys(keys) ==
    IF keys = {} THEN << >>
    ELSE LET m == CHOOSE k \in keys : \A q \in keys : k <= q
         IN << m >> \o SortedKeys(keys \ {m})

TabIdle ==
    /\ smiTable = << >>
    /\ cacheRec = [k \in {} |-> << >>]
    /\ cacheIdx = << >>
    /\ cacheWas = << >>

(* _update_cache(raw) *)
UpdateCache(t) ==
    /\ smiTable' = t
    /\ cacheRec' = CacheAfter(t)
    /\ cacheIdx' = SortedKeys(DOMAIN cacheRec')
    /\ cacheWas' = cacheIdx
    /\ TabFrame

(***************************************************************************)
(* Part XIII.  Power: libascend.ascendDeviceGetPowerUsage.                 *)
(***************************************************************************)
(* A reading "Power(W) : 88.6" is [shape "number", whole 88, tenth 6]; the *)
(* tool prints "-" for a chip without a reading; the line may be absent.   *)
PowerReadings ==
    [shape : {"number"}, whole : 0 .. MaxWatts, tenth : 0 .. 9]
      \cup [shape : {"dash", "absent"}, whole : {0}, tenth : {0}]

(* _POWER_RE.search(txt): the group (\d+) is the digits before the point *)
PowerMatch(r) == IF r.shape = "number" THEN IntVal(r.whole) ELSE NaVal

(* ascendDeviceGetPowerUsage: int(m.group(1)) * 1000 if m else NA *)
AscendGetPowerUsage(r) ==
    IF PowerMatch(r).k = "int" THEN IntVal(PowerMatch(r).n * 1000) ELSE NaVal

PowIdle ==
    /\ powText = [shape |-> "absent", whole |-> 0, tenth |-> 0]
    /\ powOut = NaVal

(* Device.power_usage() on one npu-smi output *)
ReadPower(r) ==
    /\ powText' = r
    /\ powOut' = AscendGetPowerUsage(r)
    /\ PowFrame

(***************************************************************************)
(* Part XIV.  The GUI Device of nputop/gui/library/device.py: as_snapshot  *)
(* run by the poller while consumers read the property snapshot.           *)
(***************************************************************************)
Snaps == 1 .. MaxSnaps
SnapAttrs == {"tuple_index", "display_index"}
IdleReader == [pc |-> "idle", op |-> None, obj |-> 0, had |-> {}]

GuiIdle ==
    /\ snapCur = 0
    /\ snapHas = [o \in Snaps |-> {}]
    /\ gt = [t \in Threads |-> IdleReader]

(* The poller calls device.as_snapshot(). *)
CallAsSnapshot(t) ==
    /\ t = Poller
    /\ gt[t].pc = "idle"
    /\ gt' = [gt EXCEPT ![t] = [IdleReader EXCEPT !.pc = "a_store", !.op = "as_snapshot"]]
    /\ UNCHANGED << snapCur, snapHas >>
    /\ GuiFrame

(* A consumer reads device.snapshot: "if self._snapshot is None" *)
ReadSnapshot(t) ==
    /\ t \in Consumers
    /\ gt[t].pc = "idle"
    /\ gt' = [gt EXCEPT ![t] = [IdleReader EXCEPT
                !.pc = IF snapCur = 0 THEN "a_store" ELSE "s_return",
                !.op = "snapshot"]]
    /\ UNCHANGED << snapCur, snapHas >>
    /\ GuiFrame

(* as_snapshot: self._snapshot = super().as_snapshot(), a new object *)
StoreSnapshot(t) ==
    /\ gt[t].pc = "a_store"
    /\ snapCur < MaxSnaps
    /\ snapCur' = snapCur + 1
    /\ gt' = [gt EXCEPT ![t].pc = "a_tuple"]
    /\ UNCHANGED snapHas
    /\ GuiFrame

(* as_snapshot: self._snapshot.tuple_index = self.tuple_index *)
SetTupleIndex(t) ==
    /\ gt[t].pc = "a_tuple"
    /\ snapHas' = [snapHas EXCEPT ![snapCur] = @ \cup {"tuple_index"}]
    /\ gt' = [gt EXCEPT ![t].pc = "a_display"]
    /\ UNCHANGED snapCur
    /\ GuiFrame

(* as_snapshot: self._snapshot.display_index = self.display_index *)
SetDisplayIndex(t) ==
    /\ gt[t].pc = "a_display"
    /\ snapHas' = [snapHas EXCEPT ![snapCur] = @ \cup {"display_index"}]
    /\ gt' = [gt EXCEPT ![t].pc = IF gt[t].op = "snapshot" THEN "s_return" ELSE "a_return"]
    /\ UNCHANGED snapCur
    /\ GuiFrame

(* "return self._snapshot": the caller holds the object as it is now *)
ReturnSnapshot(t) ==
    /\ gt[t].pc \in {"a_return", "s_return"}
    /\ gt' = [gt EXCEPT ![t] = [@ EXCEPT !.pc = "got", !.obj = snapCur,
                                          !.had = IF snapCur = 0 THEN {} ELSE snapHas[snapCur]]]
    /\ UNCHANGED << snapCur, snapHas >>
    /\ GuiFrame

(* The caller has used the snapshot. *)
DropSnapshot(t) ==
    /\ gt[t].pc = "got"
    /\ gt' = [gt EXCEPT ![t] = IdleReader]
    /\ UNCHANGED << snapCur, snapHas >>
    /\ GuiFrame

GuiStep(t) ==
    \/ CallAsSnapshot(t)
    \/ ReadSnapshot(t)
    \/ StoreSnapshot(t)
    \/ SetTupleIndex(t)
    \/ SetDisplayIndex(t)
    \/ ReturnSnapshot(t)
    \/ DropSnapshot(t)

(***************************************************************************)
(* Part XV.  HistoryGraph of nvitop/gui/library/history.py: add() and the  *)
(* width setter keep the maximum of the displayed window in a monotonic    *)
(* deque. Values are in tenths; MaxWidth stands for MAX_WIDTH.             *)
(***************************************************************************)
Baseline == 0
Filler == Baseline - 1
HistoryLen == 2 * MaxWidth + 1
HistoryValues == {-2, 5}
Widths == 1 .. MaxWidth + 1

Fillers(n) == [i \in 1 .. n |-> Filler]

(* deque(maxlen).appendleft(v) and .append(v) *)
AppendLeft(q, v, maxlen) ==
    IF Len(q) >= maxlen THEN << v >> \o SubSeq(q, 1, maxlen - 1) ELSE << v >> \o q
AppendRight(q, v, maxlen) ==
    IF Len(q) >= maxlen THEN SubSeq(q, 2, Len(q)) \o << v >> ELSE q \o << v >>

(* A mutant of PopLeaving: the value leaving the window is never popped. *)
PopLeavingNever(rh, mm) == mm

(* "if self.reversed_history[-1] == self._max_value_maintainer[0]:         *)
(*      self._max_value_maintainer.popleft()"                              *)
PopLeaving(rh, mm) == IF rh[Len(rh)] = mm[1] THEN Tail(mm) ELSE mm

(* "while len(mm) > 0 and mm[-1] < value: mm.pop()" *)
RECURSIVE PopSmaller(_, _)
PopSmaller(mm, v) ==
    IF mm # << >> /\ mm[Len(mm)] < v THEN PopSmaller(Front(mm), v) ELSE mm

(* The four deque statements that add() and the width setter share. *)
Push(st, v, maxlen) ==
    [ rh |-> AppendLeft(st.rh, v, maxlen),
      mm |-> AppendRight(PopSmaller(PopLeaving(st.rh, st.mm), v), v, maxlen) ]

(* The loop of the width setter over the values it takes from history. *)
RECURSIVE Replay(_, _, _)
Replay(st, vals, maxlen) ==
    IF vals = << >> THEN st ELSE Replay(Push(st, Head(vals), maxlen), Tail(vals), maxlen)

(* itertools.islice(history, max(0, history.maxlen - maxlen), history.maxlen) *)
Slice(h, maxlen) ==
    SubSeq(h, (IF Len(h) - maxlen > 0 THEN Len(h) - maxlen ELSE 0) + 1, Len(h))

HistIdle ==
    /\ hWidth = 1
    /\ history = Fillers(HistoryLen)
    /\ reversed_history = Fillers(2 * hWidth + 1)
    /\ maintainer = Fillers(2 * hWidth + 1)
    /\ hLast = Filler

(* HistoryGraph.add(value); NA is added as baseline - 0.1 *)
Add(value) ==
    LET v == IF value.k = "na" THEN Filler ELSE value.n
        st == Push([rh |-> reversed_history, mm |-> maintainer], v, 2 * hWidth + 1)
    IN  /\ reversed_history' = st.rh
        /\ maintainer' = st.mm
        /\ history' = AppendRight(history, v, HistoryLen)
        /\ hLast' = v
        /\ UNCHANGED hWidth
        /\ HistFrame

(* HistoryGraph.add(value) with a value that is neither NA nor a number *)
AddIgnored ==
    /\ UNCHANGED << hWidth, history, reversed_history, maintainer, hLast >>
    /\ HistFrame

(* HistoryGraph.width = w *)
SetWidth(w) ==
    /\ hWidth # w
    /\ hWidth' = w
    /\ LET maxlen == 2 * w + 1
           st == Replay([rh |-> Fillers(maxlen), mm |-> Fillers(maxlen)],
                        Slice(history, maxlen), maxlen)
       IN  /\ reversed_history' = st.rh
           /\ maintainer' = st.mm
    /\ UNCHANGED << history, hLast >>
    /\ HistFrame

(***************************************************************************)
(* The specifications.                                                     *)
(***************************************************************************)
vars == << devVars, ascVars, parVars, resVars, memVars, linkVars, lazyVars, stubVars, eqVars, smiVars, procVars, tabVars, powVars, guiVars, histVars >>

Init == DevInit /\ AscInit /\ ParIdle /\ ResInit /\ MemIdle /\ LinkIdle /\ LazyInit /\ StubInit /\ EqIdle /\ SmiIdle /\ ProcIdle /\ TabIdle /\ PowIdle /\ GuiIdle /\ HistIdle

InitLink == DevInit /\ AscInit /\ ParIdle /\ ResInit /\ MemIdle /\ LinkInit /\ LazyInit /\ StubInit /\ EqIdle /\ SmiIdle /\ ProcIdle /\ TabIdle /\ PowIdle /\ GuiIdle /\ HistIdle

InitMem == DevInit /\ AscInit /\ ParIdle /\ ResInit /\ MemInit /\ LinkIdle /\ LazyInit /\ StubInit /\ EqIdle /\ SmiIdle /\ ProcIdle /\ TabIdle /\ PowIdle /\ GuiIdle /\ HistIdle

InitPar == DevInit /\ AscInit /\ ParInit /\ ResInit /\ MemIdle /\ LinkIdle /\ LazyInit /\ StubInit /\ EqIdle /\ SmiIdle /\ ProcIdle /\ TabIdle /\ PowIdle /\ GuiIdle /\ HistIdle

(* One thread uses the device. *)
NextSeq == DevStep(Poller)

(* The poller uses the device while the consumers call accessors. *)
NextConc ==
    \/ DevStep(Poller)
    \/ \E t \in Consumers : ConsumerStep(t)

(* The threads call into libascend. *)
NextAsc == \E t \in Threads : AscStep(t)

(* A visible-devices string is parsed. *)
NextPar == Parse

(* The parsers are called again and again while the environment changes. *)
NextRes ==
    \/ \E a \in ArgIds : ParseCall(a)
    \/ \E ascend, cuda \in EnvVals : SetEnv(ascend, cuda)

(* The memory accessors are called on a device. *)
NextMem == \E name \in MemAccessors : CallMemAccessor(name)

(* The throughput of a link is computed. *)
NextLink == ComputeThroughput

(* The lazily stored accessors are called while the backend fails and recovers. *)
NextLazy ==
    \/ BackendFlips
    \/ CallName
    \/ CallGpuName
    \/ CallMemoryTotalHuman
    \/ Discover

(* The module is imported, then the keys are called. *)
NextStub ==
    \/ InstallStub
    \/ \E i \in 1..Len(SNAPSHOT_KEYS), nargs \in 0..MaxArgs : CallKey(i, nargs)

(* Devices are constructed and compared. *)
NextEq ==
    \/ \E r \in BOOLEAN : SetVisible(r)
    \/ \E i \in Units : NewAscendDevice(i)
    \/ \E via \in {"index", "uuid"}, d \in Units : NewGpuDevice(via, d)
    \/ \E via \in {"cuda_index", "nvml_index", "uuid"}, d \in Units : NewCudaDevice(via, d)
    \/ Compare
    \/ DropObjects

(* Fields are read as time passes. *)
NextSmi ==
    \/ Tick
    \/ \E f \in SmiFields, d \in Units : ReadCached(f, d)
    \/ \E f \in SmiFields, d \in Units, fate \in Fates : ReadField(f, d, fate)
    \/ \E d \in Units : ReadUtilizationAcl(d)
    \/ SmiExits
    \/ \E fate \in Fates : ReadSecond(fate)
    \/ ReadReturns

(* The process list is parsed cycle after cycle. *)
NextProc == \E first, second \in ProcTexts : ParseProcesses(first, second)

(* The table is refreshed again and again. *)
NextTab == \E t \in Tables : UpdateCache(t)

(* The power of a device is read on varying output. *)
NextPow == \E r \in PowerReadings : ReadPower(r)

(* The poller and the consumers run concurrently on one GUI device. *)
NextGui == \E t \in Threads : GuiStep(t)

(* Values are added and the width changes. *)
NextHist ==
    \/ \E n \in HistoryValues : Add(IntVal(n))
    \/ Add(NaVal)
    \/ AddIgnored
    \/ \E w \in Widths : SetWidth(w)

SpecSeq == Init /\ [][NextSeq]_vars

SpecConc == Init /\ [][NextConc]_vars

SpecAsc == Init /\ [][NextAsc]_vars

SpecPar == InitPar /\ [][NextPar]_vars

SpecRes == Init /\ [][NextRes]_vars

SpecMem == InitMem /\ [][NextMem]_vars

SpecLink == InitLink /\ [][NextLink]_vars

SpecLazy == Init /\ [][NextLazy]_vars

SpecStub == Init /\ [][NextStub]_vars

SpecEq == Init /\ [][NextEq]_vars

SpecSmi == Init /\ [][NextSmi]_vars

(* The subprocess and the reader take their steps. *)
SpecSmiFair == SpecSmi /\ WF_vars(SmiExits) /\ WF_vars(ReadReturns)

SpecProc == Init /\ [][NextProc]_vars

SpecTab == Init /\ [][NextTab]_vars

SpecPow == Init /\ [][NextPow]_vars

SpecGui == Init /\ [][NextGui]_vars

SpecHist == Init /\ [][NextHist]_vars

(***************************************************************************)
(* Claims about Device.oneshot() and Device.as_snapshot().                *)
(***************************************************************************)
NoScopeOpen == rlock.owner = NoThread

(* C1: while a oneshot scope is open, every call of a memoized accessor    *)
(* returns the value its first call in the scope returned, and the backend *)
(* is queried at most once for that accessor during the scope.             *)
C1_OneshotMemoizes ==
    /\ \A t \in Threads :
         (th[t].pc = "ret" /\ InScope(t) /\ Head(th[t].prims) \in Memoized
            /\ th[t].first[Head(th[t].prims)] # None)
         => th[t].got.v = th[t].first[Head(th[t].prims)]
    /\ hasCache => \A a \in Memoized : scopeQ[a] <= 1

(* A second read of memory_info inside a scope returns, after one query. *)
C1_Witness ==
    \E t \in Threads :
        /\ th[t].pc = "ret"
        /\ InScope(t)
        /\ Head(th[t].prims) = "memory_info"
        /\ th[t].first["memory_info"] # None
        /\ scopeQ["memory_info"] = 1

(* C2: during one as_snapshot() made outside any scope, each backend       *)
(* operation is queried at most once.                                      *)
C2_SnapshotQueriesOnce ==
    \A t \in Threads :
        (th[t].ki > 0 /\ Len(th[t].scopes) = 1)
        => \A a \in Prims : th[t].snapQ[a] <= 1

(* C3: entering oneshot() while the scope is open keeps the cache as it    *)
(* is, leaving an inner level keeps it too, and leaving the outermost      *)
(* level deactivates memoization and discards the cache.                   *)
C3_NestingIsIdempotent ==
    [][ \A t \in Threads :
          LET d == Len(th[t].scopes)
              e == Len(th'[t].scopes)
          IN  /\ (e > d /\ hasCache) => (hasCache' /\ cache' = cache)
              /\ (e < d /\ e > 0) => (hasCache' /\ cache' = cache)
              /\ (e < d /\ e = 0) => (~hasCache' /\ cache' = EmptyCache)
      ]_vars

(* An inner level was left and the cached value is still there. *)
C3_Witness ==
    /\ lastExit = "inner"
    /\ hasCache
    /\ cache["memory_info"].v # None
    /\ \E t \in Threads : Len(th[t].scopes) = 1 /\ th[t].pc = "idle"

(* C4: when the outermost scope (or as_snapshot()) has ended, normally or  *)
(* by an exception, no cache is active and no memoized value is left, and  *)
(* an accessor entered while no scope is open queries the backend.         *)
C4_NoCacheAfterScope ==
    /\ [](NoScopeOpen => (~hasCache /\ cache = EmptyCache))
    /\ [][ \A t \in Threads :
             (th[t].pc = "prim" /\ th'[t].pc # "prim" /\ NoScopeOpen)
             => th'[t].pc = "query" ]_vars

(* A scope ended by an exception, and the next accessor call is querying   *)
(* the backend.                                                            *)
C4_Witness ==
    /\ lastExit = "raised"
    /\ NoScopeOpen
    /\ ~hasCache
    /\ \E t \in Threads : th[t].pc = "query" /\ Head(th[t].prims) \in Memoized

C6_InitOnce ==
    nFinal = 0 =>
        /\ nInit <= 1
        /\ Cardinality({t \in Threads : lt[t].pc = "i_init"}) <= 1
        /\ \A t \in Threads :
             (\/ lt[t].pc = "f_call"
              \/ (lt[t].pc = "done" /\ lt[t].op = "ascendInit" /\ lt[t].res = "ok"))
             => (nInit = 1 /\ inited)

(* One thread is back from ascendInit() and another is at the backend call *)
(* of its nvmlQuery(), after one acl.init().                               *)
C6_Witness ==
    /\ nFinal = 0
    /\ nInit = 1
    /\ \E t, u \in Threads :
         /\ t # u
         /\ lt[t].pc = "f_call"
         /\ lt[t].op = "nvmlQuery"
         /\ lt[u].pc = "done"
         /\ lt[u].op = "ascendInit"
         /\ lt[u].res = "ok"

(* C7: acl.init() and acl.finalize() alternate, starting with acl.init():  *)
(* the initializations are as many as the finalizations, plus one exactly  *)
(* while the backend is initialized, and a thread is inside acl.finalize() *)
(* only while the backend is initialized.                                  *)
C7_InitFinalizeAlternate ==
    /\ nInit = nFinal + (IF inited THEN 1 ELSE 0)
    /\ \A t \in Threads : lt[t].pc = "s_final" => inited

(* A session was finalized, and the exit of "with libascend:" that came    *)
(* after it found nothing to finalize.                                     *)
C7_Witness ==
    /\ nInit = 1
    /\ nFinal = 1
    /\ \E t \in Threads :
         /\ lt[t].pc = "done"
         /\ lt[t].op = "__exit__"
         /\ lt[t].res = "noop"

(* C8: nvmlQuery() with ignore_errors = True never raises, and returns the *)
(* default when the initialization, the lookup of the name or the backend  *)
(* call raised.                                                            *)
C8_QueryNeverRaises ==
    \A t \in Threads :
        (lt[t].pc = "done" /\ lt[t].op = "nvmlQuery" /\ ~lt[t].strict)
        => /\ lt[t].res # "raised"
           /\ lt[t].failed # None => lt[t].res = "default"

(* One nvmlQuery() returned the default for a name the module does not     *)
(* define, another for a backend call that raised.                         *)
C8_Witness ==
    \E t, u \in Threads :
        /\ t # u
        /\ lt[t].pc = "done" /\ lt[t].op = "nvmlQuery" /\ ~lt[t].strict
        /\ lt[t].failed = "lookup" /\ lt[t].res = "default"
        /\ lt[u].pc = "done" /\ lt[u].op = "nvmlQuery" /\ ~lt[u].strict
        /\ lt[u].failed = "call" /\ lt[u].res = "default"

(* C9: nvmlQuery() with ignore_errors = False raises the error of a        *)
(* backend call that failed.                                               *)
C9_StrictRaises ==
    \A t \in Threads :
        (lt[t].pc = "done" /\ lt[t].op = "nvmlQuery" /\ lt[t].strict
         /\ lt[t].failed = "call")
        => lt[t].res = "raised"

(* The identifiers of a string: its tokens without the surrounding blanks. *)
Identifiers(toks) == [i \in 1 .. Len(toks) |-> Strip(toks[i])]

HasDuplicate(ids) == \E i, j \in 1 .. Len(ids) : i # j /\ ids[i] = ids[j]

(* C10: a string in which an identifier occurs more than once parses to    *)
(* the empty list.                                                         *)
C10_DuplicatesGiveEmpty ==
    (pDone /\ HasDuplicate(Identifiers(pIn)))
    => (pOut = << >> /\ pOutGpu = << >>)

(* The identifiers after the truncation of numeric tokens. *)
Truncated(toks) == [i \in 1 .. Len(toks) |-> StripIdentifier(toks[i])]

(* The addressing scheme of an identifier: "int", "uuid" or "none". *)
SchemeOf(id) == IF IsDigit(id) THEN "int" ELSE IF IsUuid(id) THEN "uuid" ELSE "none"

(* The device an identifier names, -1 for none. *)
DeviceOf(id) ==
    CASE IsDigit(id) -> IF ToInt(id) < NDevices THEN ToInt(id) ELSE -1
      [] IsUuid(id) -> UuidDevice(id[1])
      [] OTHER -> -1

(* The devices of the longest prefix of identifiers that all resolve under *)
(* the scheme of the first one.                                            *)
ResolvingPrefix(ids) ==
    LET ok(i) == SchemeOf(ids[i]) = SchemeOf(ids[1]) /\ DeviceOf(ids[i]) # -1
        n == CHOOSE k \in 0 .. Len(ids) :
                 /\ \A i \in 1 .. k : ok(i)
                 /\ (k < Len(ids) => ~ok(k + 1))
    IN  [i \in 1 .. n |-> DeviceOf(ids[i])]

(* C11: a non-empty string without repeated identifiers parses to the devices of its *)
(* longest resolving prefix; what follows the first identifier that does   *)
(* not resolve is dropped.                                                 *)
C11_LongestResolvingPrefix ==
    (pDone /\ pIn # << << >> >> /\ ~HasDuplicate(Truncated(pIn)))
    => (pOut = ResolvingPrefix(Truncated(pIn))
        /\ pOutGpu = ResolvingPrefix(Truncated(pIn)))

(* No device occurs twice in the list. *)
NoRepeat(devs) == \A i, j \in 1 .. Len(devs) : devs[i] = devs[j] => i = j

(* C12: the parsed list never holds the same device twice. *)
C12_OutputHasNoRepeats ==
    pDone => (NoRepeat(pOut) /\ NoRepeat(pOutGpu))

Numeric(info) == info.k = "info" /\ info.total.k = "int" /\ info.used.k = "int"

ExpectedPercent(raw) ==
    IF raw.ok /\ raw.total # 0
    THEN TenthsVal(RoundPercent(raw.total - raw.free, raw.total))
    ELSE NaVal

(* C15: memory_percent() is round(100 * used / total, 1) when used and     *)
(* total are numeric and total is not zero, and NA in every other case.    *)
C15_MemoryPercent ==
    \A name \in {"memory_percent", "gpu.memory_percent"} :
        mRes[name] # PendingVal => mRes[name] = ExpectedPercent(mRaw)

(* C17: when the memory query fails, the memory accessors return, with NA  *)
(* in what they could not read.                                            *)
C17_MemoryFailureGivesNA ==
    ~mRaw.ok =>
        \A name \in {"memory_info", "memory_total", "memory_used", "memory_free",
                     "memory_percent"} :
            mRes[name] \in {PendingVal, NaVal, NaStr}

(* C16: the throughput is a number exactly when both counters are numbers, *)
(* the new timestamp is greater than the old one and the new counter is    *)
(* not smaller than the old one; it is NA otherwise, and never negative.   *)
C16_ThroughputOnlyFromValidSamples ==
    lOut # PendingVal =>
        LET valid == /\ lOld.c.k = "int"
                     /\ lNew.c.k = "int"
                     /\ lNew.ts > lOld.ts
                     /\ lNew.c.n >= lOld.c.n
        IN  /\ valid => lOut.k = "int"
            /\ ~valid => lOut = NaVal
            /\ lOut.k = "int" => lOut.n >= 0

(* C18: a failure of the backend is not stored: an accessor called while   *)
(* the backend answers returns the real value, whatever failed before.     *)
C18_FailureNotStored ==
    (lazyLast.acc \in LazyAccessors /\ lazyLast.up)
    => lazyLast.res \in {SocName, TotalHuman}

(* C19: when the backend is unavailable, discovery through Device.count()  *)
(* and Device.from_indices() raises to its caller; it does not return a    *)
(* count of zero and an empty list of devices.                             *)
C19_UnavailableBackendRaises ==
    (found.called /\ ~found.up) => found.raised

(* C20: once device.py is imported, every name of SNAPSHOT_KEYS is an      *)
(* attribute of Device, and a call of a key the class body does not define *)
(* returns NA whatever its arguments; no call of a key raises              *)
(* AttributeError.                                                         *)
C20_EveryKeyExists ==
    /\ stubAt > Len(SNAPSHOT_KEYS)
        => \A i \in 1..Len(SNAPSHOT_KEYS) : HasAttr(SNAPSHOT_KEYS[i])
    /\ stubLast.key # "nocall"
        => /\ stubLast.res # "AttributeError"
           /\ stubLast.key \notin ClassBody => stubLast.res = NA

C20_Witness ==
    /\ stubLast.key = "cuda_compute_capability"
    /\ stubLast.nargs = MaxArgs
    /\ stubLast.res = NA

(* C21: two Device objects compare equal exactly when their physical index *)
(* and uuid are equal, however each was constructed, and equal objects     *)
(* have equal hashes.                                                      *)
C21_EqualityOnIndexAndUuid ==
    (eqLast.called /\ objA # NoObject /\ objB # NoObject)
    => /\ eqLast.eq <=> (objA.index = objB.index /\ objA.uuid = objB.uuid)
       /\ eqLast.eq => eqLast.hashA = eqLast.hashB

(* C22: npu-smi is launched at most once per time-to-live window: every    *)
(* launch comes at least Ttl seconds after the launch before it.           *)
C22_OneLaunchPerWindow == smiGap >= Ttl

(* C23: _run_smi always returns to its caller, whatever the subprocess     *)
(* does.                                                                   *)
C23_RunSmiReturns == (smiCall.pc = "waiting") ~> (smiCall.pc = "returned")

HasMarker(txt) == \E i \in 1 .. Len(txt) : txt[i].kind = "marker"
HasRows(txt) == \E i \in 1 .. Len(txt) : txt[i].kind = "row"

(* C24: output that says no process is running on the device gives the     *)
(* empty list; output in which the device's process section is missing     *)
(* (neither rows nor that line) leaves the list of the cycle before.       *)
C24_MissingSectionKeepsList ==
    /\ (HasMarker(procText) /\ ~HasRows(procText)) => procNow = << >>
    /\ (~HasMarker(procText) /\ ~HasRows(procText)) => procNow = procPrev

C26_PowerInMilliwatts ==
    powText.shape = "number"
    => powOut = IntVal(powText.whole * 1000 + powText.tenth * 100)

(* C27: the per-device lock is held only around one backend call and its   *)
(* cache write: whenever a thread owns the lock, that thread is inside a   *)
(* backend query or is storing its result.                                 *)
C27_LockOnlyAroundBackendCall ==
    rlock.owner # NoThread => th[rlock.owner].pc \in {"query", "store"}

(* C28: a device-specific ACL call that nvmlQuery issues comes after an    *)
(* acl.rt.set_device call made since the most recent acl.init().           *)
C28_SetDeviceAfterLastInit ==
    \A t \in Threads :
        (lt[t].pc = "f_call" /\ lt[t].dev # None /\ inited)
        => setAt = nInit

(* C29: a snapshot a consumer gets from Device.snapshot is never None and  *)
(* already carries tuple_index and display_index.                          *)
C29_SnapshotIsComplete ==
    \A t \in Consumers :
        (gt[t].pc = "got" /\ gt[t].op = "snapshot")
        => (gt[t].obj # 0 /\ gt[t].had = SnapAttrs)

MaxOf(q) == CHOOSE m \in { q[i] : i \in 1 .. Len(q) } : \A i \in 1 .. Len(q) : q[i] <= m

(* C30: max_value is the maximum of the values held in reversed_history,   *)
(* and last_value is the value most recently added.                        *)
C30_MaxAndLastValue ==
    /\ Len(reversed_history) = 2 * hWidth + 1
    /\ maintainer # << >>
    /\ maintainer[1] = MaxOf(reversed_history)
    /\ reversed_history[1] = hLast

(* The width was reduced and the largest value of the history is no longer *)
(* in the window.                                                          *)
C30_Witness ==
    /\ hWidth = 1
    /\ hLast = -2
    /\ MaxOf(history) = 5
    /\ MaxOf(reversed_history) = Filler

====
